---- MODULE Spec2Model ----
(***************************************************************************)
(* Verification model of jeantimex/three-geospatial.                       *)
(*                                                                         *)
(*  - the cloud shadow raymarcher marchToClouds (shadow fragment shader),  *)
(*    one action per loop step;                                            *)
(*  - CascadedShadowMaps (libs/csm): property setters, update();           *)
(*  - the atmosphere shader functions (functions.glsl), one action per     *)
(*    evaluation;                                                          *)
(*  - CloudsMaterial, intersectsSceneObjects and the local weather shader. *)
(*                                                                         *)
(* Floating-point quantities are modelled in exact fixed-point integer     *)
(* arithmetic: lengths and densities are integers, the transmittance is an *)
(* integer numerator over TransOne, exp(-x) is 2^(-x), and a quotient that *)
(* must stay exact is kept as a <<numerator, denominator>> pair.           *)
(***************************************************************************)
EXTENDS Integers, Sequences, FiniteSets, TLC

\* ------------------------------------------------------------------------
\* Bounds of the model
\* ------------------------------------------------------------------------
MaxIterations == 3
MaxRayDistance == 6
MaxDensity == 2
JitterDen == 2
MinStepSize == 2
MaxStepSize == 4
MaxStretch == 2
MaxCascadeCount == 2
MaxShadowMaps == 3
MaxCameraOffset == 2
MaxShadowCascadeCount == 5
MaxEvaluations == 2

\* ------------------------------------------------------------------------
\* Generic helpers
\* ------------------------------------------------------------------------
Max(a, b) == IF a >= b THEN a ELSE b
Min(a, b) == IF a <= b THEN a ELSE b
Abs(a) == IF a >= 0 THEN a ELSE -a
Clamp(x, lo, hi) == Min(Max(x, lo), hi)

\* ========================================================================
\* Cloud shadow raymarcher: marchToClouds
\* ========================================================================
VARIABLES
    pc,                    \* "setup" | "loop" | "return" | "done"
    maxIterations,         \* uniform int maxIterations
    maxRayDistance,        \* parameter maxRayDistance
    minDensity,            \* uniform float minDensity
    minTransmittance,      \* uniform float minTransmittance (numerator over TransOne)
    jitter,                \* parameter jitter (numerator over JitterDen)
    field,                 \* the density field and occluder along the ray
    stepSize,
    rayDistance,
    extinctionSum,
    maxOpticalDepth,
    transmittanceIntegral, \* numerator over TransOne
    frontDepth,
    sampleCount,
    i,                     \* the loop counter
    result,                \* the returned vec4, or NoResult
    firstDistance,         \* history: rayDistance at the first loop test
    iterations,            \* history: loop bodies entered
    crossedAt              \* history: iterations executed when the transmittance
                           \* was first at or below minTransmittance, or NoCross

marchVars == <<pc, maxIterations, maxRayDistance, minDensity, minTransmittance,
               jitter, field, stepSize, rayDistance, extinctionSum,
               maxOpticalDepth, transmittanceIntegral, frontDepth, sampleCount,
               i, result, firstDistance, iterations, crossedAt>>

\* CascadedShadowMaps
VARIABLES
    needsUpdateFrusta,
    maxCascadeCount,
    far,
    mode,                  \* "uniform" | "logarithmic" | "practical"
    lambda,                \* numerator over LambdaDen
    margin,
    fade,
    disableLastCascadeCutoff,
    cascadedLights,        \* directionalLight.cascadedLights
    direction,             \* directionalLight.direction
    mainCamera,            \* [near, far, position]: the camera looks along -z
    cascadedFrusta,
    splits,
    cascades,
    disposed,              \* shadow map id -> number of dispose() calls
    allocated,             \* shadow maps allocated so far
    lastCall,              \* history: the kind of the operation called last
    lastUpdateCamera       \* history: the camera position at the last update()

\* The state of the program, and with the history variables.
csmState == <<needsUpdateFrusta, maxCascadeCount, far, mode, lambda, margin, fade,
              disableLastCascadeCutoff, cascadedLights, direction, mainCamera,
              cascadedFrusta, splits, cascades, disposed, allocated>>

csmVars == <<csmState, lastCall, lastUpdateCamera>>

\* Atmosphere shader functions (functions.glsl)
VARIABLES
    atmosphere,            \* the uniforms u_bottom_radius, u_top_radius, u_mu_s_min
    atmCall                \* the function evaluated last: its arguments and result

atmVars == <<atmosphere, atmCall>>

\* CloudsMaterial and the fragment shaders of the clouds
VARIABLES
    material,              \* CloudsMaterial: uniforms, defines, needsUpdate
    materialCall,          \* the last call on the material: its name and arguments
    sceneCall,             \* the last evaluation of intersectsSceneObjects
    localWeather           \* the fragments of the local weather shader, oldest first

cloudVars == <<material, materialCall, sceneCall, localWeather>>

vars == <<marchVars, csmVars, atmVars, cloudVars>>

\* The variables of the other parts, which a step of one part leaves alone.
exceptMarch == <<csmVars, atmVars, cloudVars>>
exceptCSM == <<marchVars, atmVars, cloudVars>>
exceptAtm == <<marchVars, csmVars, cloudVars>>
exceptClouds == <<marchVars, csmVars, atmVars>>

NoResult == [valid |-> -1]
NoCross == -1
Far == 99

\* Transmittance 1.0 in fixed point.
TransOne == 2 ^ 15

\* exp(-x): the base of the exponential is taken as 2, so that products are exact.
ExpNeg(x) == IF x >= 15 THEN 0 ELSE TransOne \div (2 ^ x)

Densities == 0 .. MaxDensity

\* A density field along the ray, as a function of the ray distance: a slab
\* [lo, hi] of weather density `weather` and shape density `density`
\* (+ ripple at odd distances), and an opaque occluder from `occluder` on.
Fields ==
    [lo : {-Far, 2}, hi : {3, Far}, weather : Densities, density : Densities,
     ripple : {0, 1}, occluder : {4, Far}]

InSlab(f, d) == f.lo <= d /\ d <= f.hi

\* max channel of sampleWeather(uv, height, mipLevel).density at ray distance d
WeatherDensity(f, d) == IF InSlab(f, d) THEN f.weather ELSE 0

\* sampleShape(weather, position, mipLevel) at ray distance d
ShapeDensity(f, d) == IF InSlab(f, d) THEN f.density + f.ripple * (d % 2) ELSE 0

\* intersectsSceneObjects(position) at ray distance d
IntersectsSceneObjects(f, d) == d >= f.occluder

MarchInit ==
    /\ pc = "setup"
    /\ maxIterations \in 0 .. MaxIterations
    /\ maxRayDistance \in {1, MaxRayDistance}
    /\ minDensity \in {0, 1}
    /\ minTransmittance \in {0, TransOne \div 1024, TransOne}
    /\ jitter \in 0 .. JitterDen
    /\ field \in Fields
    /\ stepSize = 0
    /\ rayDistance = 0
    /\ extinctionSum = 0
    /\ maxOpticalDepth = 0
    /\ transmittanceIntegral = TransOne
    /\ frontDepth = 0
    /\ sampleCount = 0
    /\ i = 0
    /\ result = NoResult
    /\ firstDistance = 0
    /\ iterations = 0
    /\ crossedAt = NoCross

\* clamp(maxRayDistance / float(maxIterations), minStepSize, maxStepSize):
\* the set of values the expression can take. A division by zero yields an
\* unspecified float, clamped into the range.
SamplePeriods ==
    IF maxIterations = 0
    THEN MinStepSize .. MaxStepSize
    ELSE {Clamp(maxRayDistance \div maxIterations, MinStepSize, MaxStepSize)}

\* intersectStructuredPlanes(normal, rayOrigin, rayDirection, period, out
\* rayDistance, out stepSize): the step along the ray between two structure
\* planes and the distance to the first plane.
IntersectStructuredPlanes(period) ==
    {[stepSize |-> period * k, rayDistance |-> o * ((period * k) \div 2)] :
        k \in 1 .. MaxStretch, o \in {0, 1}}

Setup ==
    /\ pc = "setup"
    /\ \E period \in SamplePeriods :
        \E planes \in IntersectStructuredPlanes(period) :
            /\ stepSize' = planes.stepSize
            /\ rayDistance' = planes.rayDistance - (planes.stepSize * jitter) \div JitterDen
            /\ firstDistance' = rayDistance'
    /\ extinctionSum' = 0
    /\ maxOpticalDepth' = 0
    /\ transmittanceIntegral' = TransOne
    /\ frontDepth' = 0
    /\ sampleCount' = 0
    /\ i' = 0
    /\ crossedAt' = IF TransOne <= minTransmittance THEN 0 ELSE NoCross
    /\ pc' = "loop"
    /\ UNCHANGED <<maxIterations, maxRayDistance, minDensity, minTransmittance,
                   jitter, field, result, iterations>>

\* i < maxIterations, the test of the for loop
WithinIterationsOrAt(n) == n <= maxIterations
WithinIterations(n) == n < maxIterations

\* The loop test fails, or the loop body breaks on the ray distance.
LoopExit ==
    /\ pc = "loop"
    /\ \/ ~WithinIterations(i)
       \/ rayDistance > maxRayDistance
    /\ pc' = "return"
    /\ UNCHANGED <<maxIterations, maxRayDistance, minDensity, minTransmittance,
                   jitter, field, stepSize, rayDistance, extinctionSum,
                   maxOpticalDepth, transmittanceIntegral, frontDepth,
                   sampleCount, i, result, firstDistance, iterations, crossedAt>>

\* Whether the sample at the current ray distance is accumulated.
AccumulatesIgnoringOccluder ==
    /\ WeatherDensity(field, rayDistance) > minDensity
    /\ ShapeDensity(field, rayDistance) > minDensity
Accumulates ==
    /\ WeatherDensity(field, rayDistance) > minDensity
    /\ ~IntersectsSceneObjects(field, rayDistance)
    /\ ShapeDensity(field, rayDistance) > minDensity

\* density *= 5.0
ScaledDensityUnscaled(d) == d
ScaledDensity(d) == d * 5

\* if (transmittanceIntegral <= minTransmittance) break;
EarlyTerminationNever(t) == FALSE
EarlyTermination(t) == t <= minTransmittance

\* frontDepth = max(frontDepth, rayDistance)
NextFrontDepthLatest(depth, distance) == distance
NextFrontDepth(depth, distance) == Max(depth, distance)

\* density * stepSize, the optical depth of one step
StepOpticalDepthOfDensity(density) == density
StepOpticalDepth(density) == density * stepSize

\* One loop body: lines 135-162.
LoopBody ==
    /\ pc = "loop"
    /\ WithinIterations(i)
    /\ ~(rayDistance > maxRayDistance)
    /\ iterations' = iterations + 1
    /\ IF Accumulates
       THEN LET density == ScaledDensity(ShapeDensity(field, rayDistance))
            IN  /\ frontDepth' = NextFrontDepth(frontDepth, rayDistance)
                /\ extinctionSum' = extinctionSum + density
                /\ maxOpticalDepth' = maxOpticalDepth + StepOpticalDepth(density)
                /\ transmittanceIntegral' =
                       (transmittanceIntegral * ExpNeg(StepOpticalDepth(density))) \div TransOne
                /\ sampleCount' = sampleCount + 1
       ELSE UNCHANGED <<frontDepth, extinctionSum, maxOpticalDepth,
                        transmittanceIntegral, sampleCount>>
    /\ IF EarlyTermination(transmittanceIntegral')
       THEN /\ pc' = "return"
            /\ UNCHANGED <<rayDistance, i>>
       ELSE /\ pc' = "loop"
            /\ rayDistance' = rayDistance + stepSize
            /\ i' = i + 1
    /\ crossedAt' = IF crossedAt = NoCross /\ transmittanceIntegral' <= minTransmittance
                    THEN iterations' ELSE crossedAt
    /\ UNCHANGED <<maxIterations, maxRayDistance, minDensity, minTransmittance,
                   jitter, field, stepSize, result, firstDistance>>

\* Lines 165-169: the returned vec4. y is the quotient <<numerator, denominator>>.
MarchResultUnguarded ==
    [x |-> frontDepth, y |-> <<extinctionSum, Max(sampleCount, 1)>>,
     z |-> maxOpticalDepth, valid |-> 1]
MarchResult ==
    IF sampleCount = 0
    THEN [x |-> maxRayDistance, y |-> <<0, 1>>, z |-> 0, valid |-> 0]
    ELSE [x |-> frontDepth, y |-> <<extinctionSum, sampleCount>>,
          z |-> maxOpticalDepth, valid |-> 1]

Return ==
    /\ pc = "return"
    /\ result' = MarchResult
    /\ pc' = "done"
    /\ UNCHANGED <<maxIterations, maxRayDistance, minDensity, minTransmittance,
                   jitter, field, stepSize, rayDistance, extinctionSum,
                   maxOpticalDepth, transmittanceIntegral, frontDepth,
                   sampleCount, i, firstDistance, iterations, crossedAt>>


\* ========================================================================
\* CascadedShadowMaps
\* ========================================================================
LambdaDen == 2
NoMap == 0
Infinity == 1000000
Modes == {"uniform", "logarithmic", "practical"}
Fars == {8, 16}
Margins == {0, 2}
MapSizes == {2, 4}
Directions == {<<0, 0, -1>>, <<-2, 0, 0>>}
DEFAULT_UP == <<0, 1, 0>>
Origin == <<0, 0, 0>>

\* ---- Vector3 / Matrix4 (three.js), on integer vectors --------------------
VAdd(a, b) == <<a[1] + b[1], a[2] + b[2], a[3] + b[3]>>
VSub(a, b) == <<a[1] - b[1], a[2] - b[2], a[3] - b[3]>>
Dot(a, b) == a[1] * b[1] + a[2] * b[2] + a[3] * b[3]
Cross(a, b) ==
    <<a[2] * b[3] - a[3] * b[2], a[3] * b[1] - a[1] * b[3], a[1] * b[2] - a[2] * b[1]>>

\* floor(sqrt(n))
ISqrt(n) == CHOOSE r \in 0 .. 64 : r * r <= n /\ n < (r + 1) * (r + 1)

\* floor of the k-th root of n
IRoot(k, n) == CHOOSE r \in 0 .. 64 : r ^ k <= n /\ n < (r + 1) ^ k

\* Vector3.distanceTo
DistanceTo(a, b) == ISqrt(Dot(VSub(a, b), VSub(a, b)))

\* Vector3.normalize, exact on the axis-aligned vectors of the model.
Normalize(v) ==
    LET n == Abs(v[1]) + Abs(v[2]) + Abs(v[3])
    IN  IF n = 0 THEN v ELSE <<v[1] \div n, v[2] \div n, v[3] \div n>>

\* Matrix4.lookAt(eye, target, up): the rotation, as its three column axes.
LookAt(eye, target, up) ==
    LET z == Normalize(VSub(eye, target))
        x == Normalize(Cross(up, z))
        y == Cross(z, x)
    IN  <<x, y, z>>

\* Vector3.applyMatrix4 with a rotation m, and with its inverse (transpose).
ApplyMatrix(m, v) ==
    <<m[1][1] * v[1] + m[2][1] * v[2] + m[3][1] * v[3],
      m[1][2] * v[1] + m[2][2] * v[2] + m[3][2] * v[3],
      m[1][3] * v[1] + m[2][3] * v[2] + m[3][3] * v[3]>>
ApplyInverse(m, v) == <<Dot(m[1], v), Dot(m[2], v), Dot(m[3], v)>>

\* Math.round(num / den) for den > 0: halves round up.
MathRoundTruncating(num, den) == num \div den
MathRound(num, den) == (2 * num + den) \div (2 * den)

\* ---- CascadedDirectionalLight --------------------------------------------
\* A new light: its shadow camera has the default bounds of a directional
\* light's shadow, a box around the light, until updateShadowBounds sizes it.
NewLight(size) ==
    [mapSize |-> size, map |-> NoMap,
     camera |-> [left |-> -4, right |-> 4, top |-> 4, bottom |-> -4,
                 near |-> 0, far |-> 8],
     position |-> Origin, target |-> Origin]

\* directionalLight.mainLight
MainLight(lights) == lights[1]

\* CascadedDirectionalLight.setCount: the lights kept, and new ones appended.
SetCount(lights, n) ==
    [k \in 1 .. n |->
        IF k <= Len(lights) THEN lights[k] ELSE NewLight(MainLight(lights).mapSize)]

\* The shadow maps that setCount releases with the lights it removes.
ReleasedBySetCount(lights, n) ==
    {lights[k].map : k \in (n + 1) .. Len(lights)} \ {NoMap}

\* ---- splitFrustum / FrustumCorners ---------------------------------------
SplitUniform(count, near, farDepth, k) == near + ((farDepth - near) * k) \div count
SplitLogarithmic(count, near, farDepth, k) ==
    IF k = count THEN farDepth ELSE IRoot(count, (near ^ (count - k)) * (farDepth ^ k))

\* splitFrustum(mode, count, near, far, lambda, result): count split depths.
SplitFrustum(m, count, near, farDepth, l) ==
    [k \in 1 .. count |->
        LET u == SplitUniform(count, near, farDepth, k)
            g == SplitLogarithmic(count, near, farDepth, k)
        IN  CASE m = "uniform" -> u
              [] m = "logarithmic" -> g
              [] OTHER -> (u * (LambdaDen - l) + g * l) \div LambdaDen]

\* The four corners of the camera frustum at a view depth, in camera space.
Corners(depth) ==
    << <<depth, depth, -depth>>, <<depth, -depth, -depth>>,
       <<-depth, -depth, -depth>>, <<-depth, depth, -depth>> >>

\* mainFrustum.setFromCamera(camera, far); mainFrustum.split(splits, frusta)
SplitCorners(camera, s) ==
    [k \in 1 .. Len(s) |->
        [near |-> Corners(IF k = 1 THEN camera.near ELSE s[k - 1]),
         far |-> Corners(s[k])]]

\* ---- CascadedShadowMaps ---------------------------------------------------
CascadeCount == Len(cascadedLights)
MapSize == MainLight(cascadedLights).mapSize

\* updateCascades: the cascade intervals.
CascadeIntervals(s) ==
    [k \in 1 .. maxCascadeCount |->
        <<IF k >= 2 /\ k - 1 <= Len(s) THEN s[k - 1] ELSE 0,
          IF disableLastCascadeCutoff /\ k = maxCascadeCount THEN Infinity
          ELSE IF k <= Len(s) THEN s[k] ELSE 0>>]

\* getFrustumRadius, on a grid of 2 length units.
GetFrustumRadius(frustum) ==
    LET diagonal == Max(DistanceTo(frustum.far[1], frustum.far[3]),
                        DistanceTo(frustum.far[1], frustum.near[3]))
        near == mainCamera.near
        farDepth == Min(mainCamera.far, far)
        z == frustum.far[1][3]
        length == IF fade THEN diagonal + (z * z) \div (4 * (farDepth - near))
                  ELSE diagonal
    IN  2 * (length \div 4)

\* updateShadowBounds: the loop body for one light.
WithShadowBounds(light, frustum) ==
    LET radius == GetFrustumRadius(frustum)
    IN  [light EXCEPT !.camera = [left |-> -radius, right |-> radius,
                                  top |-> radius, bottom |-> -radius,
                                  near |-> 0, far |-> radius * 2 + margin]]

\* bbox of the eight corners of a frustum, moved to light space.
LightSpaceBox(frustum, orientation, cameraPosition) ==
    LET points == [j \in 1 .. 8 |->
                      ApplyInverse(orientation,
                                   VAdd(IF j <= 4 THEN frustum.near[j] ELSE frustum.far[j - 4],
                                        cameraPosition))]
        lo(c) == CHOOSE v \in {points[j][c] : j \in 1 .. 8} :
                     \A j \in 1 .. 8 : v <= points[j][c]
        hi(c) == CHOOSE v \in {points[j][c] : j \in 1 .. 8} :
                     \A j \in 1 .. 8 : v >= points[j][c]
    IN  [min |-> <<lo(1), lo(2), lo(3)>>, max |-> <<hi(1), hi(2), hi(3)>>]

\* Math.round(center / texel) * texel, the center given as twice its value.
SnapToTexelNone(twice, texel) == twice \div 2
SnapToTexel(twice, texel) == MathRound(twice, 2 * texel) * texel

LightOrientation == LookAt(Origin, Normalize(direction), DEFAULT_UP)

\* update(): lines 190-192, lightDirection
LightDirectionAsGiven == direction
LightDirection == Normalize(direction)

\* update(): lines 207-231, the placement of one cascaded light.
PlaceLight(light, frustum) ==
    LET orientation == LightOrientation
        bbox == LightSpaceBox(frustum, orientation, mainCamera.position)
        texelWidth == (light.camera.right - light.camera.left) \div MapSize
        texelHeight == (light.camera.top - light.camera.bottom) \div MapSize
        center == <<SnapToTexel(bbox.min[1] + bbox.max[1], texelWidth),
                    SnapToTexel(bbox.min[2] + bbox.max[2], texelHeight),
                    bbox.max[3] + margin>>
        world == ApplyMatrix(orientation, center)
    IN  [light EXCEPT !.position = world,
                      !.target = VAdd(world, LightDirection)]

CSMInit ==
    /\ needsUpdateFrusta = TRUE
    /\ maxCascadeCount = MaxCascadeCount
    /\ far = 16
    /\ mode = "practical"
    /\ lambda = 1
    /\ margin = 2
    /\ fade = TRUE
    /\ disableLastCascadeCutoff \in BOOLEAN
    /\ cascadedLights = [k \in 1 .. MaxCascadeCount |-> NewLight(4)]
    /\ direction = <<0, 0, -1>>
    /\ mainCamera = [near |-> 1, far |-> 16, position |-> Origin]
    /\ cascadedFrusta = <<>>
    /\ splits = <<>>
    /\ cascades = <<>>
    /\ disposed = [id \in 1 .. MaxShadowMaps |-> 0]
    /\ allocated = 0
    /\ lastCall = "new"
    /\ lastUpdateCamera = Origin

\* set cascadeCount(value)
SetCascadeCountKeepingFlag(value) ==
    /\ IF value # CascadeCount
       THEN /\ cascadedLights' = SetCount(cascadedLights, value)
            /\ disposed' = [id \in DOMAIN disposed |->
                              IF id \in ReleasedBySetCount(cascadedLights, value)
                              THEN disposed[id] + 1 ELSE disposed[id]]
       ELSE UNCHANGED <<cascadedLights, disposed>>
    /\ lastCall' = "set"
    /\ UNCHANGED <<needsUpdateFrusta, maxCascadeCount, far, mode, lambda, margin, fade,
                   disableLastCascadeCutoff, direction, mainCamera, cascadedFrusta,
                   splits, cascades, allocated, lastUpdateCamera>>
SetCascadeCount(value) ==
    /\ IF value # CascadeCount
       THEN /\ cascadedLights' = SetCount(cascadedLights, value)
            /\ disposed' = [id \in DOMAIN disposed |->
                              IF id \in ReleasedBySetCount(cascadedLights, value)
                              THEN disposed[id] + 1 ELSE disposed[id]]
            /\ needsUpdateFrusta' = TRUE
       ELSE UNCHANGED <<cascadedLights, disposed, needsUpdateFrusta>>
    /\ lastCall' = "set"
    /\ UNCHANGED <<maxCascadeCount, far, mode, lambda, margin, fade,
                   disableLastCascadeCutoff, direction, mainCamera, cascadedFrusta,
                   splits, cascades, allocated, lastUpdateCamera>>

\* The public fields far, mode, lambda, margin (lines 60-63) are assigned directly.
SetFar(value) ==
    /\ far' = value
    /\ lastCall' = "set"
    /\ UNCHANGED <<needsUpdateFrusta, maxCascadeCount, mode, lambda, margin, fade,
                   disableLastCascadeCutoff, cascadedLights, direction, mainCamera,
                   cascadedFrusta, splits, cascades, disposed, allocated,
                   lastUpdateCamera>>

SetMode(value) ==
    /\ mode' = value
    /\ lastCall' = "set"
    /\ UNCHANGED <<needsUpdateFrusta, maxCascadeCount, far, lambda, margin, fade,
                   disableLastCascadeCutoff, cascadedLights, direction, mainCamera,
                   cascadedFrusta, splits, cascades, disposed, allocated,
                   lastUpdateCamera>>

SetLambda(value) ==
    /\ lambda' = value
    /\ lastCall' = "set"
    /\ UNCHANGED <<needsUpdateFrusta, maxCascadeCount, far, mode, margin, fade,
                   disableLastCascadeCutoff, cascadedLights, direction, mainCamera,
                   cascadedFrusta, splits, cascades, disposed, allocated,
                   lastUpdateCamera>>

SetMargin(value) ==
    /\ margin' = value
    /\ lastCall' = "set"
    /\ UNCHANGED <<needsUpdateFrusta, maxCascadeCount, far, mode, lambda, fade,
                   disableLastCascadeCutoff, cascadedLights, direction, mainCamera,
                   cascadedFrusta, splits, cascades, disposed, allocated,
                   lastUpdateCamera>>

\* shadow.map.dispose(); shadow.map = null
DisposeMapLeaking(light) == {}
DisposeMap(light) == IF light.map # NoMap THEN {light.map} ELSE {}

\* set mapSize(value)
SetMapSize(value) ==
    /\ IF value # MapSize
       THEN /\ cascadedLights' =
                  [k \in 1 .. Len(cascadedLights) |->
                      [cascadedLights[k] EXCEPT !.mapSize = value, !.map = NoMap]]
            /\ disposed' =
                  [id \in DOMAIN disposed |->
                      disposed[id] + Cardinality({k \in 1 .. Len(cascadedLights) :
                                                     id \in DisposeMap(cascadedLights[k])})]
       ELSE UNCHANGED <<cascadedLights, disposed>>
    /\ lastCall' = "set"
    /\ UNCHANGED <<needsUpdateFrusta, maxCascadeCount, far, mode, lambda, margin, fade,
                   disableLastCascadeCutoff, direction, mainCamera, cascadedFrusta,
                   splits, cascades, allocated, lastUpdateCamera>>

\* The renderer allocates the shadow map of a light that has none.
RenderShadowMap(k) ==
    /\ k \in 1 .. Len(cascadedLights)
    /\ cascadedLights[k].map = NoMap
    /\ allocated < MaxShadowMaps
    /\ allocated' = allocated + 1
    /\ cascadedLights' = [cascadedLights EXCEPT ![k].map = allocated + 1]
    /\ lastCall' = "render"
    /\ UNCHANGED <<needsUpdateFrusta, maxCascadeCount, far, mode, lambda, margin, fade,
                   disableLastCascadeCutoff, direction, mainCamera, cascadedFrusta,
                   splits, cascades, disposed, lastUpdateCamera>>

\* The main camera is translated by one unit along an axis.
MoveCamera(axis, delta) ==
    /\ LET moved == [mainCamera.position EXCEPT ![axis] = @ + delta]
       IN  /\ Abs(moved[1]) + Abs(moved[2]) + Abs(moved[3]) <= MaxCameraOffset
           /\ mainCamera' = [mainCamera EXCEPT !.position = moved]
    /\ lastCall' = "move"
    /\ UNCHANGED <<needsUpdateFrusta, maxCascadeCount, far, mode, lambda, margin, fade,
                   disableLastCascadeCutoff, cascadedLights, direction, cascadedFrusta,
                   splits, cascades, disposed, allocated, lastUpdateCamera>>

\* directionalLight.setCount(value), called on the public directionalLight
\* field and not through the cascadeCount setter: the flag is not touched.
SetLightCount(value) ==
    /\ value # CascadeCount
    /\ cascadedLights' = SetCount(cascadedLights, value)
    /\ disposed' = [id \in DOMAIN disposed |->
                      IF id \in ReleasedBySetCount(cascadedLights, value)
                      THEN disposed[id] + 1 ELSE disposed[id]]
    /\ lastCall' = "setCount"
    /\ UNCHANGED <<needsUpdateFrusta, maxCascadeCount, far, mode, lambda, margin, fade,
                   disableLastCascadeCutoff, direction, mainCamera, cascadedFrusta,
                   splits, cascades, allocated, lastUpdateCamera>>

\* Math.min(this.mainCamera.far, this.far), the far depth given to splitFrustum
SplitFarOfCamera == mainCamera.far
SplitFar == Min(mainCamera.far, far)

\* if (this.needsUpdateFrusta)
NeedsRecomputeAlways == TRUE
NeedsRecompute == needsUpdateFrusta

\* update()
Update ==
    LET recompute == NeedsRecompute
        newSplits == IF recompute
                     THEN SplitFrustum(mode, CascadeCount, mainCamera.near,
                                       SplitFar, lambda)
                     ELSE splits
        newFrusta == IF recompute THEN SplitCorners(mainCamera, newSplits)
                     ELSE cascadedFrusta
        newCascades == IF recompute THEN CascadeIntervals(newSplits) ELSE cascades
        throws == recompute /\ Len(newFrusta) # Len(cascadedLights)
        \* lights[i] is undefined for a frustum without a light (line 220):
        \* light.shadow raises a TypeError, the lights before it are placed.
        typeError == Len(newFrusta) > Len(cascadedLights)
        bounded == [k \in 1 .. Len(cascadedLights) |->
                       IF recompute /\ k <= Len(newFrusta)
                       THEN WithShadowBounds(cascadedLights[k], newFrusta[k])
                       ELSE cascadedLights[k]]
    IN  /\ UNCHANGED <<maxCascadeCount, far, mode, lambda, margin, fade,
                       disableLastCascadeCutoff, direction, mainCamera, disposed,
                       allocated>>
        /\ splits' = newSplits
        /\ cascadedFrusta' = newFrusta
        /\ cascades' = newCascades
        /\ IF throws
           THEN /\ lastCall' = "updateThrew"
                /\ UNCHANGED <<needsUpdateFrusta, cascadedLights, lastUpdateCamera>>
           ELSE /\ lastCall' = IF typeError THEN "updateTypeError" ELSE "update"
                /\ needsUpdateFrusta' = FALSE
                /\ lastUpdateCamera' = mainCamera.position
                /\ cascadedLights' =
                      [k \in 1 .. Len(cascadedLights) |->
                          IF k <= Len(newFrusta)
                          THEN PlaceLight(bounded[k], newFrusta[k])
                          ELSE bounded[k]]

\* The configuration under which the camera moves between update() calls.
SnapInit ==
    /\ needsUpdateFrusta = TRUE
    /\ maxCascadeCount = MaxCascadeCount
    /\ far = 16
    /\ mode = "practical"
    /\ lambda = LambdaDen
    /\ margin \in Margins
    /\ fade = TRUE
    /\ disableLastCascadeCutoff = FALSE
    /\ \E size \in MapSizes : cascadedLights = [k \in 1 .. MaxCascadeCount |-> NewLight(size)]
    /\ direction \in Directions
    /\ mainCamera = [near |-> 1, far |-> 16, position |-> Origin]
    /\ cascadedFrusta = <<>>
    /\ splits = <<>>
    /\ cascades = <<>>
    /\ disposed = [id \in 1 .. MaxShadowMaps |-> 0]
    /\ allocated = 0
    /\ lastCall = "new"
    /\ lastUpdateCamera = Origin

\* The cameras under which the frustum is split: their near and far.
SplitInit ==
    /\ needsUpdateFrusta = TRUE
    /\ maxCascadeCount = MaxCascadeCount
    /\ far = 16
    /\ mode = "practical"
    /\ lambda = 1
    /\ margin = 2
    /\ fade = TRUE
    /\ disableLastCascadeCutoff = FALSE
    /\ cascadedLights = [k \in 1 .. MaxCascadeCount |-> NewLight(4)]
    /\ direction = <<0, 0, -1>>
    /\ \E near \in {1, 2} : \E cameraFar \in Fars :
          mainCamera = [near |-> near, far |-> cameraFar, position |-> Origin]
    /\ cascadedFrusta = <<>>
    /\ splits = <<>>
    /\ cascades = <<>>
    /\ disposed = [id \in 1 .. MaxShadowMaps |-> 0]
    /\ allocated = 0
    /\ lastCall = "new"
    /\ lastUpdateCamera = Origin

\* The configurations of the constructor that size the cascades array:
\* maxCascadeCount and disableLastCascadeCutoff.
LightsInit ==
    /\ needsUpdateFrusta = TRUE
    /\ maxCascadeCount \in 1 .. MaxCascadeCount
    /\ far = 16
    /\ mode = "practical"
    /\ lambda = 1
    /\ margin = 2
    /\ fade = TRUE
    /\ disableLastCascadeCutoff \in BOOLEAN
    /\ cascadedLights = [k \in 1 .. MaxCascadeCount |-> NewLight(4)]
    /\ direction = <<0, 0, -1>>
    /\ mainCamera = [near |-> 1, far |-> 16, position |-> Origin]
    /\ cascadedFrusta = <<>>
    /\ splits = <<>>
    /\ cascades = <<>>
    /\ disposed = [id \in 1 .. MaxShadowMaps |-> 0]
    /\ allocated = 0
    /\ lastCall = "new"
    /\ lastUpdateCamera = Origin

\* ========================================================================
\* Atmosphere: functions.glsl
\* ========================================================================
\* Floats are fixed-point integers over FOne, or one of the IEEE 754 values
\* NaN, +Inf, -Inf; sqrt and the quotients round down to the grid.
FOne == 10

Num(v) == [kind |-> "num", v |-> v]
NaN == [kind |-> "nan", v |-> 0]
Inf(sign) == [kind |-> "inf", v |-> sign]
IsNum(x) == x.kind = "num"
Sign(a) == IF a < 0 THEN -1 ELSE 1

FMul(a, b) == (a * b) \div FOne
FSqrt(x) == CHOOSE root \in 0 .. 12 * FOne : root * root <= x * FOne /\ x * FOne < (root + 1) * (root + 1)

\* a / b of two finite floats
Divide(a, b) ==
    IF b = 0 THEN (IF a = 0 THEN NaN ELSE Inf(Sign(a))) ELSE Num((a * FOne) \div b)

\* x / y, x + y, x - y, x * y of floats
FDivide(x, y) ==
    CASE IsNum(x) /\ IsNum(y) -> Divide(x.v, y.v)
      [] x.kind = "nan" \/ y.kind = "nan" -> NaN
      [] x.kind = "inf" /\ y.kind = "inf" -> NaN
      [] x.kind = "inf" -> Inf(x.v * Sign(y.v))
      [] OTHER -> Num(0)
FAdd(x, y) ==
    CASE IsNum(x) /\ IsNum(y) -> Num(x.v + y.v)
      [] x.kind = "nan" \/ y.kind = "nan" -> NaN
      [] x.kind = "inf" /\ y.kind = "inf" -> IF x.v = y.v THEN x ELSE NaN
      [] x.kind = "inf" -> x
      [] OTHER -> y
FNeg(x) == IF x.kind = "nan" THEN x ELSE [x EXCEPT !.v = -x.v]
FSub(x, y) == FAdd(x, FNeg(y))
FTimes(x, y) ==
    CASE IsNum(x) /\ IsNum(y) -> Num(FMul(x.v, y.v))
      [] x.kind = "nan" \/ y.kind = "nan" -> NaN
      [] (IsNum(x) /\ x.v = 0) \/ (IsNum(y) /\ y.v = 0) -> NaN
      [] OTHER -> Inf(Sign(x.v) * Sign(y.v))

\* x < y of floats: false when an operand is NaN
FLess(x, y) ==
    CASE x.kind = "nan" \/ y.kind = "nan" -> FALSE
      [] IsNum(x) /\ IsNum(y) -> x.v < y.v
      [] x.kind = "inf" /\ y.kind = "inf" -> x.v < y.v
      [] x.kind = "inf" -> x.v < 0
      [] OTHER -> y.v > 0

\* max(x, y), min(x, y), clamp(x, lo, hi) of GLSL. Their result is undefined
\* when an operand is NaN: a GPU returns the NaN (nanWins) or the other operand.
FMax(x, y, nanWins) ==
    CASE x.kind = "nan" -> IF nanWins THEN x ELSE y
      [] y.kind = "nan" -> IF nanWins THEN y ELSE x
      [] OTHER -> IF FLess(x, y) THEN y ELSE x
FMin(x, y, nanWins) ==
    CASE x.kind = "nan" -> IF nanWins THEN x ELSE y
      [] y.kind = "nan" -> IF nanWins THEN y ELSE x
      [] OTHER -> IF FLess(y, x) THEN y ELSE x
FClamp(x, lo, hi, nanWins) == FMin(FMax(x, lo, nanWins), hi, nanWins)

\* The uniforms: u_bottom_radius < u_top_radius, and u_mu_s_min.
Atmospheres ==
    {[bottom_radius |-> 3 * FOne, top_radius |-> 5 * FOne, mu_s_min |-> -(FOne \div 5),
      max_rayleigh_shadow_length |-> FOne],
     [bottom_radius |-> 0, top_radius |-> 5 * FOne, mu_s_min |-> -(FOne \div 5),
      max_rayleigh_shadow_length |-> FOne]}
u_bottom_radius == atmosphere.bottom_radius
u_top_radius == atmosphere.top_radius
u_mu_s_min == atmosphere.mu_s_min
u_max_rayleigh_shadow_length == atmosphere.max_rayleigh_shadow_length

\* The sizes of the scattering texture (compile-time defines).
SCATTERING_TEXTURE_R_SIZE == 4
SCATTERING_TEXTURE_MU_SIZE == 8
SCATTERING_TEXTURE_MU_S_SIZE == 4

\* The arguments the functions are evaluated at.
Radii == {u_bottom_radius + k * FOne : k \in 0 .. (u_top_radius - u_bottom_radius) \div FOne}
Cosines == {-FOne, -(FOne \div 2), 0, FOne \div 2, FOne}

ClampDistance(d) == Max(d, 0)
SafeSqrt(a) == FSqrt(Max(a, 0))

DistanceToTopAtmosphereBoundary(r, mu) ==
    LET discriminant == FMul(FMul(r, r), FMul(mu, mu) - FOne) + FMul(u_top_radius, u_top_radius)
    IN  ClampDistance(-FMul(r, mu) + SafeSqrt(discriminant))

RayIntersectsGround(r, mu) ==
    /\ mu < 0
    /\ FMul(FMul(r, r), FMul(mu, mu) - FOne) + FMul(u_bottom_radius, u_bottom_radius) >= 0

\* GetTextureCoordFromUnitRange(x, texture_size), of a float x
GetTextureCoordFromUnitRange(x, size) ==
    FAdd(Num(FOne \div (2 * size)), FTimes(x, Num(FOne - FOne \div size)))

\* GetScatteringTextureUvwzFromRMuMuSNu: the coordinate of each axis in the
\* unit range (x) and in the texture (u), and whether a quotient of the
\* evaluation had the divisor 0.
GetScatteringTextureUvwzFromRMuMuSNu(r, mu, mu_s, nu, ray_r_mu_intersects_ground, nanWins) ==
    LET H == FSqrt(FMul(u_top_radius, u_top_radius) - FMul(u_bottom_radius, u_bottom_radius))
        rho == SafeSqrt(FMul(r, r) - FMul(u_bottom_radius, u_bottom_radius))
        x_r == Divide(rho, H)
        r_mu == FMul(r, mu)
        discriminant == FMul(r_mu, r_mu) - FMul(r, r) + FMul(u_bottom_radius, u_bottom_radius)
        dG == -r_mu - SafeSqrt(discriminant)
        dG_min == r - u_bottom_radius
        dG_max == rho
        dT == -r_mu + SafeSqrt(discriminant + FMul(H, H))
        dT_min == u_top_radius - r
        dT_max == rho + H
        x_mu == IF ray_r_mu_intersects_ground
                THEN (IF dG_max = dG_min THEN Num(0)
                      ELSE Divide(dG - dG_min, dG_max - dG_min))
                ELSE Divide(dT - dT_min, dT_max - dT_min)
        half == GetTextureCoordFromUnitRange(x_mu, SCATTERING_TEXTURE_MU_SIZE \div 2)
        u_mu == IF ray_r_mu_intersects_ground
                THEN FSub(Num(FOne \div 2), FTimes(Num(FOne \div 2), half))
                ELSE FAdd(Num(FOne \div 2), FTimes(Num(FOne \div 2), half))
        d == DistanceToTopAtmosphereBoundary(u_bottom_radius, mu_s)
        d_min == u_top_radius - u_bottom_radius
        d_max == H
        a == Divide(d - d_min, d_max - d_min)
        D == DistanceToTopAtmosphereBoundary(u_bottom_radius, u_mu_s_min)
        A == Divide(D - d_min, d_max - d_min)
        x_mu_s == FDivide(FMax(FSub(Num(FOne), FDivide(a, A)), Num(0), nanWins),
                          FAdd(Num(FOne), a))
    IN  [x_r |-> x_r, x_mu |-> x_mu, x_mu_s |-> x_mu_s,
         u_r |-> GetTextureCoordFromUnitRange(x_r, SCATTERING_TEXTURE_R_SIZE),
         u_mu |-> u_mu,
         u_mu_s |-> GetTextureCoordFromUnitRange(x_mu_s, SCATTERING_TEXTURE_MU_S_SIZE),
         u_nu |-> Num((nu + FOne) \div 2),
         zeroDivisor |->
            [r |-> H = 0,
             mu |-> IF ray_r_mu_intersects_ground THEN FALSE ELSE dT_max - dT_min = 0,
             mu_s |-> \/ d_max - d_min = 0
                      \/ (IsNum(A) /\ A.v = 0)
                      \/ (IsNum(a) /\ a.v = -FOne)]]

\* ---- the transmittance texture ---------------------------------------------
\* A texel is a vec3 of non-negative channels. A sampler2D is modelled by its
\* texels left and right of the middle of the mu axis.
Texels == {<<0, 0, 0>>, <<0, FOne \div 2, FOne>>, <<FOne \div 2, FOne \div 2, FOne \div 2>>,
           <<FOne, FOne, FOne>>}
Samplers == [{"low", "high"} -> Texels]

ClampCosine(mu, nanWins) == FClamp(mu, Num(-FOne), Num(FOne), nanWins)
ClampRadius(r) == Clamp(r, u_bottom_radius, u_top_radius)

\* GetTransmittanceTextureUvFromRMu, the coordinates in the unit range
GetTransmittanceTextureUvFromRMu(r, mu) ==
    LET H == FSqrt(FMul(u_top_radius, u_top_radius) - FMul(u_bottom_radius, u_bottom_radius))
        rho == SafeSqrt(FMul(r, r) - FMul(u_bottom_radius, u_bottom_radius))
        d == DistanceToTopAtmosphereBoundary(r, mu)
        d_min == u_top_radius - r
        d_max == rho + H
    IN  [x_mu |-> Divide(d - d_min, d_max - d_min), x_r |-> Divide(rho, H)]

\* texture(transmittance_texture, uv): the texel at uv; any texel (undefined)
\* when a coordinate is not a number.
Texture(sampler, uv, undefined) ==
    IF ~IsNum(uv.x_mu) \/ ~IsNum(uv.x_r) THEN undefined
    ELSE IF 2 * uv.x_mu.v < FOne THEN sampler["low"] ELSE sampler["high"]

\* GetTransmittanceToTopAtmosphereBoundary, of a float cosine
GetTransmittanceToTopAtmosphereBoundary(transmittance_texture, r, mu, undefined) ==
    IF ~IsNum(mu) THEN undefined
    ELSE Texture(transmittance_texture, GetTransmittanceTextureUvFromRMu(r, mu.v), undefined)

\* min(a / b, vec3(1.0)), component-wise
RatioAtMostOne(a, b, nanWins) ==
    [c \in 1 .. 3 |-> FMin(Divide(a[c], b[c]), Num(FOne), nanWins)]

GetTransmittance(transmittance_texture, r, mu, d, ray_r_mu_intersects_ground, nanWins, undefined) ==
    LET r_d == ClampRadius(FSqrt(FMul(d, d) + 2 * FMul(FMul(r, mu), d) + FMul(r, r)))
        mu_d == ClampCosine(Divide(FMul(r, mu) + d, r_d), nanWins)
    IN  IF ray_r_mu_intersects_ground
        THEN RatioAtMostOne(
                 GetTransmittanceToTopAtmosphereBoundary(transmittance_texture, r_d,
                                                         FNeg(mu_d), undefined),
                 GetTransmittanceToTopAtmosphereBoundary(transmittance_texture, r,
                                                         Num(-mu), undefined),
                 nanWins)
        ELSE RatioAtMostOne(
                 GetTransmittanceToTopAtmosphereBoundary(transmittance_texture, r,
                                                         Num(mu), undefined),
                 GetTransmittanceToTopAtmosphereBoundary(transmittance_texture, r_d,
                                                         mu_d, undefined),
                 nanWins)

\* The lengths d a transmittance is asked over.
Distances == {0, FOne, 2 * FOne}

\* ---- GetExtrapolatedSingleMieScattering ---------------------------------------
\* The floor 1e-5 of the red channel, as the smallest positive number of the
\* fixed-point grid.
ScatteringFloor == 1
u_rayleigh_scattering == <<FOne \div 2, FOne, 2 * FOne>>
u_mie_scattering == <<FOne, FOne, FOne>>
ScatteringTexels == {<<red, FOne \div 2, FOne, a>> : red \in {0, 1, 2, FOne}, a \in {0, FOne \div 2, FOne}}

\* scattering.r < 1e-5
MieBelowFloorOrAt(scattering) == scattering[1] <= ScatteringFloor
MieBelowFloor(scattering) == scattering[1] < ScatteringFloor

\* The value returned, and the divisor scattering.r of the quotient where the
\* quotient is evaluated.
GetExtrapolatedSingleMieScattering(scattering) ==
    IF MieBelowFloor(scattering)
    THEN [value |-> <<0, 0, 0>>, divided |-> FALSE, divisor |-> 0]
    ELSE [value |-> [c \in 1 .. 3 |->
                        FMul(FMul((FMul(scattering[c], scattering[4]) * FOne) \div scattering[1],
                                  (u_rayleigh_scattering[1] * FOne) \div u_mie_scattering[1]),
                             (u_mie_scattering[c] * FOne) \div u_rayleigh_scattering[c])],
          divided |-> TRUE, divisor |-> scattering[1]]

\* ---- GetSkyRadiance ----------------------------------------------------------
\* Vectors are triples of fixed-point numbers; the directions have length 1.
FDot(a, b) == Dot(a, b) \div FOne
FLength(a) == FSqrt(FDot(a, a))
FScale(a, k) == <<FMul(a[1], k), FMul(a[2], k), FMul(a[3], k)>>

Cameras == {<<0, 4 * FOne, 0>>, <<0, 5 * FOne, 0>>, <<0, 6 * FOne, 0>>, <<0, 10 * FOne, 0>>}
UnitVectors ==
    {<<0, FOne, 0>>, <<0, -FOne, 0>>, <<FOne, 0, 0>>,
     <<(4 * FOne) \div 5, -((3 * FOne) \div 5), 0>>,
     <<(3 * FOne) \div 5, -((4 * FOne) \div 5), 0>>,
     <<(3 * FOne) \div 5, (4 * FOne) \div 5, 0>>}
ShadowLengths == {0, FOne, 2 * FOne}

\* r_p, mu_p and mu_s_p of the point at distance d along the ray (lines 317-319)
ShiftedPoint(r, mu, mu_s, nu, d) ==
    LET r_p == ClampRadius(FSqrt(FMul(d, d) + 2 * FMul(FMul(r, mu), d) + FMul(r, r)))
    IN  [r |-> r_p,
         mu |-> Divide(FMul(r, mu) + d, r_p),
         mu_s |-> Divide(FMul(r, mu_s) + FMul(d, nu), r_p)]

\* distance_to_top_atmosphere_boundary of GetSkyRadiance (lines 284-285)
DistanceToTop(r, rmu) ==
    Num(-rmu - SafeSqrt(FMul(rmu, rmu) - FMul(r, r) + FMul(u_top_radius, u_top_radius)))

\* GetSkyRadiance: the camera and r it evaluates the tables at, and the table
\* lookups in the order of the calls, each with the r, mu and mu_s it is
\* given. The radiance is the texture data of the lookups.
GetSkyRadiance(camera0, view_ray, shadow_length, sun_direction) ==
    LET r0 == FLength(camera0)
        rmu0 == FDot(camera0, view_ray)
        distance == DistanceToTop(r0, rmu0)
        advance == FLess(Num(0), distance)
        camera == IF advance THEN VAdd(camera0, FScale(view_ray, distance.v)) ELSE camera0
        r == IF advance THEN u_top_radius ELSE r0
        rmu == IF advance THEN rmu0 + distance.v ELSE rmu0
        mu == (rmu * FOne) \div r
        mu_s == (FDot(camera, sun_direction) * FOne) \div r
        nu == FDot(view_ray, sun_direction)
        ground == RayIntersectsGround(r, mu)
        toTop == IF ground THEN <<>>
                 ELSE <<[fn |-> "transmittanceToTop", r |-> r, mu |-> Num(mu)]>>
        combined(q) == [fn |-> "combinedScattering", r |-> q.r, mu |-> q.mu, mu_s |-> q.mu_s]
        transmittance(d) == [fn |-> "transmittance", r |-> r, mu |-> Num(mu), d |-> d]
        rayleigh == Min(shadow_length, u_max_rayleigh_shadow_length)
    IN  IF ~advance /\ r0 > u_top_radius
        THEN [returned |-> "zero", transmittance |-> "one", camera |-> camera, r |-> r,
              lookups |-> <<>>]
        ELSE [returned |-> "radiance", transmittance |-> IF ground THEN "zero" ELSE "toTop",
              camera |-> camera, r |-> r,
              lookups |->
                 IF shadow_length = 0
                 THEN toTop \o <<combined([r |-> r, mu |-> Num(mu), mu_s |-> Num(mu_s)])>>
                 ELSE toTop \o
                      <<combined(ShiftedPoint(r, mu, mu_s, nu, rayleigh)),
                        transmittance(rayleigh),
                        combined(ShiftedPoint(r, mu, mu_s, nu, shadow_length)),
                        transmittance(shadow_length)>>]

\* ---- GetSkyRadianceToPoint ----------------------------------------------------
\* The points a radiance is asked to; they and the cameras lie in one plane.
Points ==
    {<<0, 4 * FOne, 0>>, <<0, 6 * FOne, 0>>, <<0, -6 * FOne, 0>>, <<0, -10 * FOne, 0>>,
     <<0, 10 * FOne, 0>>, <<6 * FOne, 6 * FOne, 0>>, <<8 * FOne, 0, 0>>,
     <<3 * FOne, 10 * FOne, 0>>, <<6 * FOne, 10 * FOne, 0>>}

\* t of RayOutsideTopAtmosphereBoundary (line 367)
ClosestParameter(camera, ray, nanWins) ==
    FNeg(FClamp(Divide(FDot(camera, ray), FDot(ray, ray)), Num(0), Num(FOne), nanWins))

RayOutsideTopAtmosphereBoundary(camera, point, r, nanWins) ==
    IF r < u_top_radius \/ FLength(point) < u_top_radius
    THEN FALSE
    ELSE LET ray == VSub(point, camera)
             t == ClosestParameter(camera, ray, nanWins)
         IN  /\ IsNum(t)
             /\ FLength(VAdd(camera, FScale(ray, t.v))) > u_top_radius

\* GetSkyRadianceToPoint up to its first return (lines 380-385)
GetSkyRadianceToPoint(camera, point, nanWins) ==
    LET r == FLength(camera)
        outside == RayOutsideTopAtmosphereBoundary(camera, point, r, nanWins)
    IN  [r |-> r, outside |-> outside,
         returned |-> IF outside THEN "zero" ELSE "radiance",
         transmittance |-> IF outside THEN "one" ELSE "computed"]

AtmInit ==
    /\ atmosphere \in Atmospheres
    /\ atmCall = [fn |-> "none"]

\* A fragment evaluates GetScatteringTextureUvwzFromRMuMuSNu.
CallGetScatteringTextureUvwz ==
    /\ atmCall.fn = "none"
    /\ \E r \in Radii : \E mu \in Cosines : \E mu_s \in Cosines :
         \E ground \in BOOLEAN : \E nanWins \in BOOLEAN :
            atmCall' = [fn |-> "uvwz", r |-> r, mu |-> mu, mu_s |-> mu_s,
                        ray_r_mu_intersects_ground |-> ground,
                        result |-> GetScatteringTextureUvwzFromRMuMuSNu(
                                       r, mu, mu_s, FOne, ground, nanWins)]
    /\ UNCHANGED atmosphere

\* ========================================================================
\* CloudsMaterial (CloudsMaterial.ts) and the clouds' fragment shaders
\* ========================================================================
\* The main camera of the model is orthographic, at the origin, looking down
\* -z, with the identity as its view matrix and the ellipsoid centre at the
\* origin. Clip coordinates are numerators over ClipOne, depths over DepthOne.
ClipOne == 4
DepthOne == 8
cameraNear == 2
cameraFar == 10

\* The length of the shadowIntervals and shadowMatrices uniform arrays
ShadowArrayLength == 4

Depths == 0 .. DepthOne
\* A depth texture has one texel for each half of the screen, left and right;
\* null has none.
null == <<>>
DepthTextures == {<<left, right>> : left, right \in {DepthOne \div 2, DepthOne}}
DepthBuffers == {null} \cup DepthTextures

\* readDepth(uv) with DEPTH_PACKING '0'. A sampler with no texture bound has
\* no defined texel: `undefined` is the value the platform returns.
readDepth(depthBuffer, uv, undefined) ==
    IF depthBuffer = null THEN undefined
    ELSE depthBuffer[IF 2 * uv[1] < ClipOne THEN 1 ELSE 2]

\* vViewProjectionMatrix * vec4(position, 1.0), after the division by clip.w
ViewProjection(position) ==
    <<position[1], position[2],
      (2 * ClipOne * (-position[3] - cameraNear)) \div (cameraFar - cameraNear) - ClipOne>>

\* z of inverseProjectionMatrix * vec4(clip.xy, depth * 2.0 - 1.0, 1.0)
SceneViewZOfRawDepth(depth) ==
    -(cameraNear + ((depth + DepthOne) * (cameraFar - cameraNear)) \div (2 * DepthOne))
SceneViewZ(depth) ==
    -(cameraNear + (depth * (cameraFar - cameraNear)) \div DepthOne)

intersectsSceneObjects(rayPosition, depthBuffer, undefined) ==
    LET position == rayPosition
        clip == ViewProjection(position)
        uv == <<(clip[1] + ClipOne) \div 2, (clip[2] + ClipOne) \div 2>>
        depth == readDepth(depthBuffer, uv, undefined)
        rayViewZ == position[3]
    IN  IF \/ clip[1] < -ClipOne \/ clip[1] > ClipOne
           \/ clip[2] < -ClipOne \/ clip[2] > ClipOne
           \/ clip[3] < 0 \/ clip[3] > ClipOne
        THEN FALSE
        ELSE IF depth >= DepthOne
        THEN FALSE
        ELSE rayViewZ < SceneViewZ(depth)

RayPositions ==
    {<<x, 0, z>> : x \in {-5, -2, 2}, z \in {-11, -10, -8, -6, -5}}
        \cup {<<2, 5, -8>>, <<-2, -5, -8>>, <<4, 4, -7>>}

\* ---- the local weather shader ------------------------------------------------
\* Noise values are numerators over WOne.
WOne == 100
TexCoords == {<<u, v>> : u \in {0, 25, 50}, v \in {0, 50}}
Channels == {0, WOne}

\* getWorleyNoise(point, frequency), in [0, 1]: a value per cell of the
\* lattice of the frequency
getWorleyNoise(point, frequency) ==
    LET cell == (point[1] * frequency) \div WOne + 7 * ((point[2] * frequency) \div WOne)
    IN  (37 * cell) % (WOne + 1)

\* getPerlinNoise(point, frequency, octaveCount), in [-1, 1]
getPerlinNoise(point, frequency, octaveCount) ==
    LET cell == (point[1] * frequency[1]) \div WOne
                + 7 * ((point[2] * frequency[2]) \div WOne)
    IN  ((53 * cell + octaveCount) % (2 * WOne + 1)) - WOne

RECURSIVE getWorleyFbm(_, _, _, _, _, _)
getWorleyFbm(point, frequency, amplitude, lacunarity, gain, octaveCount) ==
    IF octaveCount <= 0 THEN 0
    ELSE (amplitude * (WOne - getWorleyNoise(point, frequency))) \div WOne
         + getWorleyFbm(point, frequency * lacunarity, (amplitude * gain) \div WOne,
                        lacunarity, gain, octaveCount - 1)

smoothstep(edge0, edge1, x) ==
    LET t == Clamp(((x - edge0) * WOne) \div (edge1 - edge0), 0, WOne)
    IN  (t * t * (3 * WOne - 2 * t)) \div (WOne * WOne)

\* main() of the local weather shader: outputColor. No statement writes
\* outputColor.g: its value is `undefined`.
LocalWeatherMain(vUv, undefined) ==
    LET point == <<vUv[1], vUv[2], 0>>
        worley == getWorleyFbm(point, 16, (4 * WOne) \div 10, 2, (95 * WOne) \div 100, 4)
        perlin == getPerlinNoise(point, <<6, 12, 1>>, 8)
    IN  [r |-> smoothstep((8 * WOne) \div 10, (14 * WOne) \div 10, worley),
         g |-> undefined,
         b |-> smoothstep(-(WOne \div 2), WOne \div 2, perlin),
         a |-> WOne]

\* ---- CloudsMaterial ------------------------------------------------------------
\* new CloudsMaterial({depthBuffer, shadowCascadeCount})
\* A define is a string, a sequence of characters; NoDefine is a define
\* that is not set.
NoDefine == <<>>
DigitCharacters == <<"0", "1", "2", "3", "4", "5", "6", "7", "8", "9">>

RECURSIVE NaturalString(_)
NaturalString(n) ==
    IF n < 10 THEN <<DigitCharacters[n + 1]>>
    ELSE NaturalString(n \div 10) \o <<DigitCharacters[(n % 10) + 1]>>

\* `${value}` of an integer
DefineString(value) ==
    IF value < 0 THEN <<"-">> \o NaturalString(-value) ELSE NaturalString(value)

DigitValue(character) == (CHOOSE d \in 1 .. 10 : DigitCharacters[d] = character) - 1

RECURSIVE NaturalValue(_)
NaturalValue(string) ==
    IF string = <<>> THEN 0
    ELSE 10 * NaturalValue(SubSeq(string, 1, Len(string) - 1)) + DigitValue(string[Len(string)])

\* The number NaN, for the define that is not set
NotANumber == -999999

\* +string, the unary plus of a define
DefineNumber(string) ==
    IF string = NoDefine THEN NotANumber
    ELSE IF string[1] = "-" THEN -NaturalValue(Tail(string))
    ELSE NaturalValue(string)

DefineNames ==
    [depthPacking |-> "DEPTH_PACKING", useShapeDetail |-> "USE_SHAPE_DETAIL",
     multiScatteringOctaves |-> "MULTI_SCATTERING_OCTAVES", usePowder |-> "USE_POWDER",
     useGroundIrradiance |-> "USE_GROUND_IRRADIANCE",
     shadowCascadeCount |-> "SHADOW_CASCADE_COUNT"]
NumberProperties == {"depthPacking", "multiScatteringOctaves", "shadowCascadeCount"}
FlagProperties == {"useShapeDetail", "usePowder", "useGroundIrradiance"}

\* The getters of the define-backed properties
GetProperty(m, property) ==
    IF property \in NumberProperties
    THEN DefineNumber(m.defines[DefineNames[property]])
    ELSE m.defines[DefineNames[property]] # NoDefine

\* The setters of the number properties and of the boolean properties
WithNumberDefineAlways(m, property, value) ==
    [m EXCEPT !.defines[DefineNames[property]] = DefineString(value), !.needsUpdate = TRUE]
WithNumberDefine(m, property, value) ==
    IF value # GetProperty(m, property)
    THEN [m EXCEPT !.defines[DefineNames[property]] = DefineString(value),
                   !.needsUpdate = TRUE]
    ELSE m

WithFlagDefine(m, property, value) ==
    IF value # GetProperty(m, property)
    THEN [m EXCEPT !.defines[DefineNames[property]] = IF value THEN <<"1">> ELSE NoDefine,
                   !.needsUpdate = TRUE]
    ELSE m

DepthPackings == {3200, 3201}
OctaveCounts == {-1, 10}

\* The cameras given to copyCameraSettings: matrixWorld is a translation.
MaterialCameras ==
    [isPerspectiveCamera : BOOLEAN, near : {1}, far : {10},
     matrixWorld : {<<0, 0, 0>>, <<0, 0, 7>>}]

\* new CloudsMaterial({depthBuffer, shadowCascadeCount})
CloudsConstructed(depthBuffer, shadowCascadeCount) ==
    [uniforms |-> [depthBuffer |-> depthBuffer,
                   viewMatrix |-> <<0, 0, 0>>,
                   inverseProjectionMatrix |-> "identity",
                   inverseViewMatrix |-> <<0, 0, 0>>,
                   cameraNear |-> 0, cameraFar |-> 0, cameraHeight |-> 0,
                   cameraPosition |-> <<0, 0, 0>>],
     defines |-> [DEPTH_PACKING |-> <<"0">>,
                  USE_SHAPE_DETAIL |-> <<"1">>,
                  MULTI_SCATTERING_OCTAVES |-> <<"8">>,
                  USE_POWDER |-> <<"1">>,
                  USE_GROUND_IRRADIANCE |-> <<"1">>,
                  SHADOW_CASCADE_COUNT |-> DefineString(shadowCascadeCount),
                  PERSPECTIVE_CAMERA |-> NoDefine],
     needsUpdate |-> TRUE]

CloudsInit ==
    /\ \E depthBuffer \in DepthBuffers :
         \E shadowCascadeCount \in 1 .. MaxShadowCascadeCount :
            material = CloudsConstructed(depthBuffer, shadowCascadeCount)
    /\ materialCall = [fn |-> "new"]
    /\ sceneCall = [fn |-> "none"]
    /\ localWeather = <<>>

\* set depthBuffer(value)
SetDepthBuffer(value) ==
    /\ material' = [material EXCEPT !.uniforms.depthBuffer = value]
    /\ materialCall' = [fn |-> "setDepthBuffer"]
    /\ UNCHANGED <<sceneCall, localWeather>>

\* The setter of a define-backed property
SetProperty(property, value) ==
    /\ material' = IF property \in NumberProperties
                   THEN WithNumberDefine(material, property, value)
                   ELSE WithFlagDefine(material, property, value)
    /\ materialCall' = [fn |-> "set", property |-> property, value |-> value]
    /\ UNCHANGED <<sceneCall, localWeather>>

SetDepthPacking(value) == SetProperty("depthPacking", value)
SetUseShapeDetail(value) == SetProperty("useShapeDetail", value)
SetMultiScatteringOctaves(value) == SetProperty("multiScatteringOctaves", value)
SetUsePowder(value) == SetProperty("usePowder", value)
SetUseGroundIrradiance(value) == SetProperty("useGroundIrradiance", value)

\* set shadowCascadeCount(value)
SetShadowCascadeCount(value) == SetProperty("shadowCascadeCount", value)

\* super.copyCameraSettings(camera): the cameraPosition uniform
SuperCopyCameraSettings(m, camera) ==
    [m EXCEPT !.uniforms.cameraPosition = camera.matrixWorld]

\* geodeticScratch.setFromECEF(position).height: no height at the centre
SetFromECEFThrows(position) == position = <<0, 0, 0>>
GeodeticHeight(position) == position[3] - 6

\* lines 241-251: the PERSPECTIVE_CAMERA define
WithPerspectiveDefineAlways(m, camera) ==
    [m EXCEPT !.defines.PERSPECTIVE_CAMERA = IF camera.isPerspectiveCamera THEN <<"1">> ELSE NoDefine,
              !.needsUpdate = TRUE]
WithPerspectiveDefine(m, camera) ==
    IF camera.isPerspectiveCamera
    THEN IF m.defines.PERSPECTIVE_CAMERA # <<"1">>
         THEN [m EXCEPT !.defines.PERSPECTIVE_CAMERA = <<"1">>, !.needsUpdate = TRUE]
         ELSE m
    ELSE IF m.defines.PERSPECTIVE_CAMERA # NoDefine
         THEN [m EXCEPT !.defines.PERSPECTIVE_CAMERA = NoDefine, !.needsUpdate = TRUE]
         ELSE m

\* copyCameraSettings(camera)
CopyCameraSettings(camera) ==
    /\ LET base == WithPerspectiveDefine(SuperCopyCameraSettings(material, camera), camera)
           copied == [base EXCEPT !.uniforms.viewMatrix = VSub(Origin, camera.matrixWorld),
                                  !.uniforms.inverseProjectionMatrix =
                                      IF camera.isPerspectiveCamera THEN "perspective"
                                      ELSE "orthographic",
                                  !.uniforms.inverseViewMatrix = camera.matrixWorld,
                                  !.uniforms.cameraNear = camera.near,
                                  !.uniforms.cameraFar = camera.far]
           position == copied.uniforms.cameraPosition
       IN  /\ material' = IF SetFromECEFThrows(position) THEN copied
                          ELSE [copied EXCEPT !.uniforms.cameraHeight = GeodeticHeight(position)]
           /\ materialCall' = [fn |-> "copyCameraSettings", camera |-> camera,
                               caught |-> SetFromECEFThrows(position), returned |-> TRUE]
    /\ UNCHANGED <<sceneCall, localWeather>>

\* The renderer has compiled the program of the material.
Compile ==
    /\ material.needsUpdate
    /\ material' = [material EXCEPT !.needsUpdate = FALSE]
    /\ materialCall' = [fn |-> "compile"]
    /\ UNCHANGED <<sceneCall, localWeather>>

\* A step of the march tests a sample against the scene.
CallIntersectsSceneObjects ==
    /\ \E rayPosition \in RayPositions : \E undefined \in Depths :
          sceneCall' = [fn |-> "intersectsSceneObjects", rayPosition |-> rayPosition,
                        depthBuffer |-> material.uniforms.depthBuffer,
                        occluded |-> intersectsSceneObjects(
                                         rayPosition, material.uniforms.depthBuffer,
                                         undefined)]
    /\ UNCHANGED <<material, materialCall, localWeather>>

\* A fragment of the local weather texture is rendered.
RenderLocalWeather ==
    /\ Len(localWeather) < MaxEvaluations
    /\ \E vUv \in TexCoords : \E undefined \in Channels :
          localWeather' = Append(localWeather,
                                 [vUv |-> vUv,
                                  outputColor |-> LocalWeatherMain(vUv, undefined)])
    /\ UNCHANGED <<material, materialCall, sceneCall>>

\* The subsystems at rest, for the specifications of the other ones.
MarchIdle ==
    /\ MarchInit
    /\ maxIterations = 0
    /\ maxRayDistance = 1
    /\ minDensity = 0
    /\ minTransmittance = 0
    /\ jitter = 0
    /\ field = [lo |-> -Far, hi |-> Far, weather |-> 0, density |-> 0,
                ripple |-> 0, occluder |-> Far]

CSMIdle ==
    /\ CSMInit
    /\ disableLastCascadeCutoff = FALSE

\* A fragment evaluates GetTransmittance.
CallGetTransmittance ==
    /\ atmCall.fn = "none"
    /\ \E sampler \in Samplers : \E r \in Radii : \E mu \in Cosines : \E d \in Distances :
         \E ground \in BOOLEAN : \E nanWins \in BOOLEAN : \E undefined \in Texels :
            atmCall' = [fn |-> "transmittance", transmittance_texture |-> sampler,
                        r |-> r, mu |-> mu, d |-> d,
                        ray_r_mu_intersects_ground |-> ground,
                        result |-> GetTransmittance(sampler, r, mu, d, ground,
                                                    nanWins, undefined)]
    /\ UNCHANGED atmosphere

\* A fragment evaluates GetExtrapolatedSingleMieScattering.
CallGetExtrapolatedSingleMieScattering ==
    /\ atmCall.fn = "none"
    /\ \E scattering \in ScatteringTexels :
          atmCall' = [fn |-> "singleMie", scattering |-> scattering,
                      result |-> GetExtrapolatedSingleMieScattering(scattering)]
    /\ UNCHANGED atmosphere

\* A fragment evaluates GetSkyRadiance.
CallGetSkyRadiance ==
    /\ atmCall.fn = "none"
    /\ \E camera \in Cameras : \E view_ray \in UnitVectors :
         \E shadow_length \in ShadowLengths : \E sun_direction \in UnitVectors :
            atmCall' = [fn |-> "skyRadiance", camera |-> camera, view_ray |-> view_ray,
                        shadow_length |-> shadow_length, sun_direction |-> sun_direction,
                        result |-> GetSkyRadiance(camera, view_ray, shadow_length,
                                                  sun_direction)]
    /\ UNCHANGED atmosphere

\* A fragment evaluates GetSkyRadianceToPoint.
CallGetSkyRadianceToPoint ==
    /\ atmCall.fn = "none"
    /\ \E camera \in Cameras : \E point \in Points : \E nanWins \in BOOLEAN :
            atmCall' = [fn |-> "skyRadianceToPoint", camera |-> camera, point |-> point,
                        result |-> GetSkyRadianceToPoint(camera, point, nanWins)]
    /\ UNCHANGED atmosphere

AtmIdle ==
    /\ AtmInit
    /\ atmosphere.bottom_radius > 0

CloudsIdle ==
    /\ material = CloudsConstructed(null, ShadowArrayLength)
    /\ materialCall = [fn |-> "new"]
    /\ sceneCall = [fn |-> "none"]
    /\ localWeather = <<>>

\* ========================================================================
\* Specifications
\* ========================================================================
Init == MarchInit /\ CSMIdle /\ AtmIdle /\ CloudsIdle

Next ==
    \/ Setup /\ UNCHANGED exceptMarch
    \/ LoopExit /\ UNCHANGED exceptMarch
    \/ LoopBody /\ UNCHANGED exceptMarch
    \/ Return /\ UNCHANGED exceptMarch

\* marchToClouds
Spec == Init /\ [][Next]_vars

\* The shader runs to its return: no step of the march waits for anything.
\* The marches of a field without ripple, with the density threshold at 0.
InitFair ==
    /\ Init
    /\ minDensity = 0
    /\ field.ripple = 0
NextFair ==
    \/ Setup /\ UNCHANGED exceptMarch
    \/ LoopExit /\ UNCHANGED exceptMarch
    \/ LoopBody /\ UNCHANGED exceptMarch
    \/ Return /\ UNCHANGED exceptMarch
SpecFair == InitFair /\ [][NextFair]_vars /\ WF_vars(NextFair)

\* CascadedShadowMaps: the setters and update()
InitCSM == CSMInit /\ MarchIdle /\ AtmIdle /\ CloudsIdle

NextCSM ==
    \/ (\E value \in 1 .. MaxCascadeCount : SetCascadeCount(value)) /\ UNCHANGED exceptCSM
    \/ (\E value \in Fars : SetFar(value)) /\ UNCHANGED exceptCSM
    \/ (\E value \in Modes : SetMode(value)) /\ UNCHANGED exceptCSM
    \/ (\E value \in 0 .. LambdaDen : SetLambda(value)) /\ UNCHANGED exceptCSM
    \/ (\E value \in Margins : SetMargin(value)) /\ UNCHANGED exceptCSM
    \/ (\E value \in MapSizes : SetMapSize(value)) /\ UNCHANGED exceptCSM
    \/ Update /\ UNCHANGED exceptCSM

SpecCSM == InitCSM /\ [][NextCSM]_vars

\* CascadedShadowMaps: the shadow maps of the cascaded lights, allocated by
\* the renderer and released by the setters
InitMaps == CSMInit /\ MarchIdle /\ AtmIdle /\ CloudsIdle

NextMaps ==
    \/ (\E value \in 1 .. MaxCascadeCount : SetCascadeCount(value)) /\ UNCHANGED exceptCSM
    \/ (\E value \in MapSizes : SetMapSize(value)) /\ UNCHANGED exceptCSM
    \/ (\E k \in 1 .. MaxCascadeCount : RenderShadowMap(k)) /\ UNCHANGED exceptCSM
    \/ Update /\ UNCHANGED exceptCSM

SpecMaps == InitMaps /\ [][NextMaps]_vars

\* CascadedShadowMaps: update() under camera translations
InitSnap == SnapInit /\ MarchIdle /\ AtmIdle /\ CloudsIdle

NextSnap ==
    \/ (\E axis \in 1 .. 3 : \E delta \in {-1, 1} : MoveCamera(axis, delta)) /\ UNCHANGED exceptCSM
    \/ Update /\ UNCHANGED exceptCSM

SpecSnap == InitSnap /\ [][NextSnap]_vars

\* CascadedShadowMaps: the split of the frustum
InitSplit == SplitInit /\ MarchIdle /\ AtmIdle /\ CloudsIdle

NextSplit ==
    \/ (\E value \in 1 .. MaxCascadeCount : SetCascadeCount(value)) /\ UNCHANGED exceptCSM
    \/ (\E value \in Fars : SetFar(value)) /\ UNCHANGED exceptCSM
    \/ (\E value \in Modes : SetMode(value)) /\ UNCHANGED exceptCSM
    \/ (\E value \in 0 .. LambdaDen : SetLambda(value)) /\ UNCHANGED exceptCSM
    \/ Update /\ UNCHANGED exceptCSM

SpecSplit == InitSplit /\ [][NextSplit]_vars

\* CascadedShadowMaps: the cascades and the count of the lights
InitLights == LightsInit /\ MarchIdle /\ AtmIdle /\ CloudsIdle

NextLights ==
    \/ (\E value \in 1 .. MaxCascadeCount : SetCascadeCount(value)) /\ UNCHANGED exceptCSM
    \/ (\E value \in 1 .. MaxCascadeCount : SetLightCount(value)) /\ UNCHANGED exceptCSM
    \/ (\E value \in Fars : SetFar(value)) /\ UNCHANGED exceptCSM
    \/ Update /\ UNCHANGED exceptCSM

SpecLights == InitLights /\ [][NextLights]_vars

\* The atmosphere functions, each evaluated at the arguments of a fragment
InitAtm == AtmInit /\ MarchIdle /\ CSMIdle /\ CloudsIdle

NextAtm ==
    \/ CallGetScatteringTextureUvwz /\ UNCHANGED exceptAtm
    \/ CallGetTransmittance /\ UNCHANGED exceptAtm
    \/ CallGetSkyRadiance /\ UNCHANGED exceptAtm
    \/ CallGetExtrapolatedSingleMieScattering /\ UNCHANGED exceptAtm
    \/ CallGetSkyRadianceToPoint /\ UNCHANGED exceptAtm

SpecAtm == InitAtm /\ [][NextAtm]_vars

\* CloudsMaterial and the scene test of the cloud march
InitClouds ==
    /\ CloudsInit
    /\ MarchIdle /\ CSMIdle /\ AtmIdle

NextClouds ==
    \/ (\E value \in DepthBuffers : SetDepthBuffer(value)) /\ UNCHANGED exceptClouds
    \/ (\E value \in 1 .. MaxShadowCascadeCount : SetShadowCascadeCount(value))
          /\ UNCHANGED exceptClouds
    \/ Compile /\ UNCHANGED exceptClouds
    \/ CallIntersectsSceneObjects /\ UNCHANGED exceptClouds

SpecClouds == InitClouds /\ [][NextClouds]_vars

\* CloudsMaterial: the define-backed properties and copyCameraSettings
MaterialInit ==
    /\ \E shadowCascadeCount \in 1 .. MaxShadowCascadeCount :
          material = CloudsConstructed(null, shadowCascadeCount)
    /\ materialCall = [fn |-> "new"]
    /\ sceneCall = [fn |-> "none"]
    /\ localWeather = <<>>

InitMaterial ==
    /\ MaterialInit
    /\ MarchIdle /\ CSMIdle /\ AtmIdle

NextMaterial ==
    \/ (\E value \in DepthPackings : SetDepthPacking(value)) /\ UNCHANGED exceptClouds
    \/ (\E value \in BOOLEAN : SetUseShapeDetail(value)) /\ UNCHANGED exceptClouds
    \/ (\E value \in OctaveCounts : SetMultiScatteringOctaves(value)) /\ UNCHANGED exceptClouds
    \/ (\E value \in BOOLEAN : SetUsePowder(value)) /\ UNCHANGED exceptClouds
    \/ (\E value \in BOOLEAN : SetUseGroundIrradiance(value)) /\ UNCHANGED exceptClouds
    \/ (\E value \in 1 .. MaxShadowCascadeCount : SetShadowCascadeCount(value))
          /\ UNCHANGED exceptClouds
    \/ (\E camera \in MaterialCameras : CopyCameraSettings(camera)) /\ UNCHANGED exceptClouds
    \/ Compile /\ UNCHANGED exceptClouds

SpecMaterial == InitMaterial /\ [][NextMaterial]_vars

\* The local weather shader
InitWeather ==
    /\ CloudsIdle
    /\ MarchIdle /\ CSMIdle /\ AtmIdle

NextWeather ==
    \/ RenderLocalWeather /\ UNCHANGED exceptClouds

SpecWeather == InitWeather /\ [][NextWeather]_vars

\* ========================================================================
\* Claims about marchToClouds
\* ========================================================================

\* The ray distance of loop iteration k (0-based): the march advances by one
\* stepSize per iteration from the first distance.
SampleDistance(k) == firstDistance + k * stepSize

\* The sample of iteration k contributes: some weather channel and the shape
\* density exceed minDensity, and the sample is not occluded.
Contributes(k) ==
    LET d == SampleDistance(k)
    IN  /\ (IF field.lo <= d /\ d <= field.hi THEN field.weather ELSE 0) > minDensity
        /\ d < field.occluder
        /\ (IF field.lo <= d /\ d <= field.hi
            THEN field.density + field.ripple * (d % 2) ELSE 0) > minDensity

ContributingSamples == {k \in 0 .. iterations - 1 : Contributes(k)}

RECURSIVE SumScaled(_)
SumScaled(S) ==
    IF S = {} THEN 0
    ELSE LET k == CHOOSE x \in S : TRUE
             d == SampleDistance(k)
         IN  5 * (field.density + field.ripple * (d % 2)) + SumScaled(S \ {k})

\* C1: when the march ends with sampleCount = 0, the returned vector is
\* exactly (maxRayDistance, 0, 0, 0).
C1_NoSampleResult ==
    (pc = "done" /\ sampleCount = 0) =>
        /\ result.x = maxRayDistance
        /\ result.y[1] = 0
        /\ result.z = 0
        /\ result.valid = 0

C1_Witness ==
    /\ pc = "done"
    /\ sampleCount = 0
    /\ iterations >= 2
    /\ result.valid = 0

\* C2: when at least one sample contributed, the returned vector is
\* (frontDepth, extinctionSum / sampleCount, maxOpticalDepth, 1), the sum
\* being that of the scaled densities of exactly the contributing samples and
\* the count their number, which is not zero.
C2_ValidResult ==
    (pc = "done" /\ sampleCount > 0) =>
        /\ result.valid = 1
        /\ result.x = frontDepth
        /\ result.z = maxOpticalDepth
        /\ sampleCount = Cardinality(ContributingSamples)
        /\ extinctionSum = SumScaled(ContributingSamples)
        /\ result.y[2] # 0
        /\ result.y[1] * Cardinality(ContributingSamples)
               = SumScaled(ContributingSamples) * result.y[2]

C2_Witness ==
    /\ pc = "done"
    /\ sampleCount >= 2
    /\ iterations > sampleCount
    /\ result.valid = 1

\* The accumulators of the march.
accumulators == <<frontDepth, extinctionSum, maxOpticalDepth,
                  transmittanceIntegral, sampleCount>>

\* C3: once the transmittance is at or below minTransmittance after K loop
\* iterations, the loop performs at most K + 1 iterations; and after the
\* iteration in which the threshold is reached no sample is taken and no
\* accumulator changes.
C3_EarlyExit ==
    [][ /\ (crossedAt' # NoCross => iterations' <= crossedAt' + 1)
        /\ (crossedAt >= 1 =>
              /\ iterations' = iterations
              /\ rayDistance' = rayDistance
              /\ accumulators' = accumulators) ]_vars

C3_Witness ==
    /\ pc = "done"
    /\ crossedAt >= 2
    /\ crossedAt < maxIterations
    /\ iterations = crossedAt
    /\ sampleCount >= 2

\* The field is uniform along the ray: weather and shape density d, no occluder.
UniformField(d) ==
    /\ field.lo = -Far
    /\ field.hi = Far
    /\ field.weather = d
    /\ field.density = d
    /\ field.ripple = 0
    /\ field.occluder = Far

\* C4: with a uniform density d > minDensity, no occluder, maxIterations >= 1
\* and the first sample within maxRayDistance, the march is valid, and the
\* mean extinction is exactly 5 * d. The minDensity test reads the unscaled
\* density: a uniform density d <= minDensity gives no valid result, also
\* when 5 * d > minDensity.
C4_UniformDensity ==
    \A d \in Densities :
        (pc = "done" /\ UniformField(d)) =>
            /\ (d > minDensity /\ maxIterations >= 1 /\ firstDistance <= maxRayDistance) =>
                  /\ result.valid = 1
                  /\ sampleCount > 0
                  /\ result.y[1] = 5 * d * result.y[2]
            /\ d <= minDensity => result.valid = 0

C4_Witness ==
    /\ pc = "done"
    /\ UniformField(field.density)
    /\ field.density = 1
    /\ minDensity = 0
    /\ sampleCount >= 2
    /\ result.y = <<5 * sampleCount, sampleCount>>

\* The sample at ray distance d is skipped: no weather channel exceeds
\* minDensity, or the sample is occluded, or the shape density does not
\* exceed minDensity.
SkippedAt(d) ==
    \/ (IF field.lo <= d /\ d <= field.hi THEN field.weather ELSE 0) <= minDensity
    \/ d >= field.occluder
    \/ (IF field.lo <= d /\ d <= field.hi
        THEN field.density + field.ripple * (d % 2) ELSE 0) <= minDensity

\* C23 as stated: an iteration that skips its sample changes no accumulator
\* and advances the ray distance by one stepSize.
C23_SkipAdvances ==
    [][ (pc = "loop" /\ iterations' = iterations + 1 /\ SkippedAt(rayDistance)) =>
          /\ accumulators' = accumulators
          /\ rayDistance' = rayDistance + stepSize ]_vars

\* C23, amended: an iteration that skips its sample changes no accumulator;
\* it advances the ray distance by one stepSize unless the transmittance is
\* at or below minTransmittance, where the loop ends with the ray distance
\* as it was.
C23_SkipKeepsAccumulators ==
    [][ (pc = "loop" /\ iterations' = iterations + 1 /\ SkippedAt(rayDistance)) =>
          /\ accumulators' = accumulators
          /\ IF transmittanceIntegral <= minTransmittance
             THEN rayDistance' = rayDistance /\ pc' = "return"
             ELSE rayDistance' = rayDistance + stepSize /\ pc' = "loop" ]_vars

\* The march has skipped samples and accumulated others, a step further each
\* time.
C23_Witness ==
    /\ pc = "done"
    /\ sampleCount >= 1
    /\ iterations >= sampleCount + 2
    /\ field.occluder < Far
    /\ rayDistance = firstDistance + iterations * stepSize

\* C24: the march returns, after at most maxIterations iterations; and once
\* the loop has ended the ray distance exceeds maxRayDistance, or the
\* transmittance is at or below minTransmittance, or maxIterations
\* iterations were executed.
C24_Terminates ==
    /\ <>(pc = "done")
    /\ [](iterations <= maxIterations)
    /\ []((pc \in {"return", "done"}) =>
             \/ rayDistance > maxRayDistance
             \/ transmittanceIntegral <= minTransmittance
             \/ iterations = maxIterations)

\* With the step clamped to maxStepSize the loop has ended by the exhaustion
\* of its iterations, before the ray distance reached maxRayDistance.
C24_Witness ==
    /\ pc = "done"
    /\ maxIterations >= 1
    /\ maxRayDistance \div maxIterations > MaxStepSize
    /\ stepSize = MaxStepSize
    /\ iterations = maxIterations
    /\ rayDistance <= maxRayDistance
    /\ transmittanceIntegral > minTransmittance

\* The largest ray distance of the contributing samples, or 0 if there is
\* none at a positive distance.
LargestContributing ==
    LET distances == {SampleDistance(k) : k \in ContributingSamples} \cup {0}
    IN  CHOOSE d \in distances : \A e \in distances : e <= d

\* C26: frontDepth is the largest ray distance among the contributing
\* samples, or 0 if all of them are negative; it lies in [0, maxRayDistance]
\* (maxRayDistance itself being positive) and never decreases.
C26_FrontDepth ==
    [][ /\ frontDepth' >= frontDepth \/ pc = "setup"
        /\ (pc' = "done" /\ result'.valid = 1) =>
              /\ result'.x = LargestContributing
              /\ 0 <= result'.x
              /\ result'.x <= maxRayDistance ]_vars

\* A valid result whose first contributing sample was at a negative distance
\* and whose last one was further along the ray.
C26_Witness ==
    /\ pc = "done"
    /\ result.valid = 1
    /\ firstDistance < 0
    /\ Contributes(0)
    /\ sampleCount >= 2
    /\ result.x > 0

\* A valid result all of whose contributing samples were at negative
\* distances.
C26_WitnessNegative ==
    /\ pc = "done"
    /\ result.valid = 1
    /\ \A k \in ContributingSamples : SampleDistance(k) < 0
    /\ result.x = 0

\* C27: in the loop maxOpticalDepth = stepSize * extinctionSum, sampleCount
\* is at most the number of iterations executed and the transmittance does
\* not increase; in a valid result maxOpticalDepth = meanExtinction *
\* sampleCount * stepSize.
C27_OpticalDepth ==
    [][ /\ pc \in {"loop", "return", "done"} =>
              /\ maxOpticalDepth = stepSize * extinctionSum
              /\ sampleCount <= iterations
        /\ pc # "setup" => transmittanceIntegral' <= transmittanceIntegral
        /\ (pc' = "done" /\ result'.valid = 1) =>
              result'.z * result'.y[2] = result'.y[1] * sampleCount * stepSize ]_vars

\* A valid result of several samples with a step of more than one unit.
C27_Witness ==
    /\ pc = "done"
    /\ result.valid = 1
    /\ stepSize >= 2
    /\ sampleCount >= 2
    /\ iterations > sampleCount
    /\ result.z = stepSize * extinctionSum
    /\ transmittanceIntegral < TransOne

\* ========================================================================
\* Claims about CascadedShadowMaps
\* ========================================================================

\* C5: after any assignment that changes cascadeCount, mode, lambda, margin
\* or far, needsUpdateFrusta is true.
C5_DirtyOnChange ==
    [][ (\/ CascadeCount' # CascadeCount
         \/ mode' # mode
         \/ lambda' # lambda
         \/ margin' # margin
         \/ far' # far) => needsUpdateFrusta' ]_vars

\* What updateFrusta recomputes, but for the cameras of the lights.
FrustaState == <<splits, cascades, cascadedFrusta>>

\* The shadow cameras of the lights that a step keeps are unchanged.
ShadowCamerasKept ==
    \A k \in 1 .. Min(Len(cascadedLights), Len(cascadedLights')) :
        cascadedLights'[k].camera = cascadedLights[k].camera

\* C6: splits, cascades, frusta and shadow cameras are rewritten only by an
\* update() entered with needsUpdateFrusta true; an update() entered with the
\* flag false leaves them unchanged; and the flag is false after every
\* update() that returns normally.
C6_UpdateOnlyWhenDirty ==
    [][ /\ (FrustaState' # FrustaState \/ ~ShadowCamerasKept)
              => (lastCall' = "update" /\ needsUpdateFrusta)
        /\ (lastCall' = "update" /\ ~needsUpdateFrusta)
              => (FrustaState' = FrustaState /\ ShadowCamerasKept)
        /\ lastCall' = "update" => ~needsUpdateFrusta' ]_vars

\* The frusta are those of an earlier far and the flag is clear.
C6_Witness ==
    /\ lastCall = "update"
    /\ ~needsUpdateFrusta
    /\ Len(splits) = MaxCascadeCount
    /\ splits[Len(splits)] = 16
    /\ far = 8
    /\ cascadedLights[2].camera.right > 4

\* C7 as stated: after mapSize or cascadeCount is set to a different value,
\* needsUpdateFrusta is true.
C7_DirtyOnMapSizeOrCount ==
    [][ (MapSize' # MapSize \/ CascadeCount' # CascadeCount)
            => needsUpdateFrusta' ]_vars

\* C7 amended: after cascadeCount is set to a different value,
\* needsUpdateFrusta is true; setting mapSize leaves the flag as it was.
C7_DirtyOnCount ==
    [][ /\ CascadeCount' # CascadeCount => needsUpdateFrusta'
        /\ (MapSize' # MapSize /\ CascadeCount' = CascadeCount)
              => needsUpdateFrusta' = needsUpdateFrusta ]_vars

\* The count was changed after an update(), the map size too.
C7_Witness ==
    /\ needsUpdateFrusta
    /\ Len(splits) = MaxCascadeCount
    /\ CascadeCount = 1
    /\ MapSize = 2

\* The shadow maps attached to the lights.
AttachedMaps == {cascadedLights[k].map : k \in 1 .. Len(cascadedLights)} \ {NoMap}

\* C8: setting mapSize to a different value v leaves every cascaded light
\* with map size v and no shadow map, every map attached before the call
\* disposed exactly once; setting it to its current value changes nothing.
C8_MapSizeReleases ==
    [][ \A v \in MapSizes : SetMapSize(v) =>
          IF v # MapSize
          THEN /\ \A k \in 1 .. Len(cascadedLights') :
                     /\ cascadedLights'[k].mapSize = v
                     /\ cascadedLights'[k].map = NoMap
               /\ Len(cascadedLights') = Len(cascadedLights)
               /\ \A id \in DOMAIN disposed :
                     disposed'[id] = IF id \in AttachedMaps THEN 1 ELSE disposed[id]
          ELSE UNCHANGED csmState ]_vars

\* Two maps were attached and a change of the map size released both.
C8_Witness ==
    /\ CascadeCount = 2
    /\ MapSize = 2
    /\ AttachedMaps = {}
    /\ allocated = 2
    /\ \A id \in 1 .. 2 : disposed[id] = 1

\* ---- texel snapping -----------------------------------------------------
LightSpacePosition(light) == ApplyInverse(LightOrientation, light.position)

TexelWidth(light) == (light.camera.right - light.camera.left) \div MapSize
TexelHeight(light) == (light.camera.top - light.camera.bottom) \div MapSize

\* The camera translation since the last update(), in light space.
Translation ==
    ApplyInverse(LightOrientation, VSub(mainCamera.position, lastUpdateCamera))

SubTexel(light) ==
    /\ Dot(Translation, Translation) < TexelWidth(light) * TexelWidth(light)
    /\ Dot(Translation, Translation) < TexelHeight(light) * TexelHeight(light)

\* C9 as stated: an update() that differs from the one before only by a
\* camera translation smaller than a texel leaves the world position of
\* every cascaded light identical.
C9_IdenticalPosition ==
    [][ (/\ lastCall' = "update"
         /\ ~needsUpdateFrusta
         /\ \A k \in 1 .. Len(cascadedLights) : SubTexel(cascadedLights[k]))
        => \A k \in 1 .. Len(cascadedLights) :
              cascadedLights'[k].position = cascadedLights[k].position ]_vars

\* C9 amended: under such a translation the light-space x and y of each
\* cascaded light stay or move by exactly one texel, its light-space z
\* follows the translation, and without translation the position is identical.
C9_TexelSteps ==
    [][ (lastCall' = "update" /\ ~needsUpdateFrusta) =>
          \A k \in 1 .. Len(cascadedLights) :
              SubTexel(cascadedLights[k]) =>
                  LET a == LightSpacePosition(cascadedLights'[k])
                      b == LightSpacePosition(cascadedLights[k])
                      w == TexelWidth(cascadedLights[k])
                      h == TexelHeight(cascadedLights[k])
                  IN  /\ a[1] - b[1] \in {-w, 0, w}
                      /\ a[2] - b[2] \in {-h, 0, h}
                      /\ a[3] - b[3] = Translation[3]
                      /\ Translation = Origin => a = b ]_vars

\* A second update() after a translation of one unit put the first light one
\* texel of two units aside.
C9_Witness ==
    /\ lastCall = "update"
    /\ lastUpdateCamera # Origin
    /\ TexelWidth(cascadedLights[1]) = 2
    /\ LightSpacePosition(cascadedLights[1])[1] = 2

\* The unsnapped centre of a frustum in light space, as twice its value.
TwiceCenter(frustum) ==
    LET bbox == LightSpaceBox(frustum, LightOrientation, mainCamera.position)
    IN  <<bbox.min[1] + bbox.max[1], bbox.min[2] + bbox.max[2], 2 * (bbox.max[3] + margin)>>

\* C10: after update() the light-space x (y) of each cascaded light is a
\* multiple of the texel width (height) and at most half a texel from the
\* centre of the bounding box; its z is the box's max z plus margin.
C10_SnappedCenter ==
    [][ lastCall' = "update" =>
          \A k \in 1 .. Len(cascadedLights') :
              LET a == LightSpacePosition(cascadedLights'[k])
                  w == TexelWidth(cascadedLights'[k])
                  h == TexelHeight(cascadedLights'[k])
                  c == TwiceCenter(cascadedFrusta'[k])
              IN  /\ w > 0 /\ h > 0
                  /\ a[1] % w = 0
                  /\ a[2] % h = 0
                  /\ Abs(2 * a[1] - c[1]) <= w
                  /\ Abs(2 * a[2] - c[2]) <= h
                  /\ 2 * a[3] = c[3] ]_vars

\* A light placed off the centre of its box, on the texel grid.
C10_Witness ==
    /\ lastCall = "update"
    /\ \E k \in 1 .. Len(cascadedLights) :
          /\ 2 * LightSpacePosition(cascadedLights[k])[1] # TwiceCenter(cascadedFrusta[k])[1]
          /\ LightSpacePosition(cascadedLights[k])[1] # 0

\* ---- the split of the frustum ---------------------------------------------
UpdateCalls == {"update", "updateThrew", "updateTypeError"}

StrictlyIncreasing(s) == \A k \in 1 .. Len(s) - 1 : s[k] < s[k + 1]

\* C11: an update() that recomputes the frusta in practical mode leaves one
\* split depth per cascade, the depths strictly increasing and the last one
\* equal to min(camera.far, csm.far).
C11_SplitsIncrease ==
    [][ (lastCall' \in UpdateCalls /\ needsUpdateFrusta /\ mode = "practical") =>
          /\ Len(splits') = CascadeCount
          /\ StrictlyIncreasing(splits')
          /\ splits'[Len(splits')] = Min(mainCamera.far, far) ]_vars

\* A blend of the uniform and the logarithmic split, cut at the far of the
\* csm, which is nearer than the camera's.
C11_Witness ==
    /\ lastCall = "update"
    /\ mode = "practical"
    /\ 0 < lambda /\ lambda < LambdaDen
    /\ mainCamera.far = 16
    /\ far = 8
    /\ Len(splits) = 2
    /\ splits[2] = 8
    /\ splits[1] # SplitUniform(2, mainCamera.near, 8, 1)
    /\ splits[1] # SplitLogarithmic(2, mainCamera.near, 8, 1)

\* C12 as stated: the stored cascade intervals are contiguous and none is
\* inverted: the first starts at 0, each starts where the one before ends,
\* and x <= y in every entry.
C12_ContiguousCascades ==
    cascades # <<>> =>
        /\ cascades[1][1] = 0
        /\ \A n \in 2 .. Len(cascades) : cascades[n][1] = cascades[n - 1][2]
        /\ \A n \in 1 .. Len(cascades) : cascades[n][1] <= cascades[n][2]

\* C13 as stated: an update() that runs its loop with a number of frusta
\* different from the number of lights ends in the invariant failure and
\* leaves the position and the target of every light as they were.
C13_MismatchAsserts ==
    [][ (lastCall' \in UpdateCalls /\ Len(cascadedFrusta') # Len(cascadedLights)) =>
          /\ lastCall' = "updateThrew"
          /\ \A k \in 1 .. Len(cascadedLights) :
                /\ cascadedLights'[k].position = cascadedLights[k].position
                /\ cascadedLights'[k].target = cascadedLights[k].target ]_vars

\* ========================================================================
\* Claims about the atmosphere functions
\* ========================================================================
Axes == {"mu", "mu_s"}

\* C14 as stated: in an evaluation of GetScatteringTextureUvwzFromRMuMuSNu no
\* quotient of the mu and mu_s axes has the divisor 0 and their coordinates
\* are finite; where d_max = d_min the coordinate of the axis is 0.
C14_DegenerateGuard ==
    atmCall.fn = "uvwz" =>
        /\ \A axis \in Axes : ~atmCall.result.zeroDivisor[axis]
        /\ IsNum(atmCall.result.x_mu) /\ IsNum(atmCall.result.x_mu_s)
        /\ IsNum(atmCall.result.u_mu) /\ IsNum(atmCall.result.u_mu_s)
        /\ (atmCall.ray_r_mu_intersects_ground /\ atmCall.r = u_bottom_radius)
              => atmCall.result.x_mu = Num(0)

\* With 0 < u_bottom_radius the only degenerate range is the guarded one.
UvwzFiniteAboveGround ==
    (atmCall.fn = "uvwz" /\ u_bottom_radius > 0) => C14_DegenerateGuard

\* C15 as stated: every component of the result of GetTransmittance is a
\* number in [0, 1].
C15_RatioInUnitRange ==
    atmCall.fn = "transmittance" =>
        \A c \in 1 .. 3 :
            /\ IsNum(atmCall.result[c])
            /\ 0 <= atmCall.result[c].v
            /\ atmCall.result[c].v <= FOne

\* A cosine given to a lookup is a number of [-1, 1].
IsCosine(x) == IsNum(x) /\ -FOne <= x.v /\ x.v <= FOne

\* C16 as stated: every mu and mu_s that GetSkyRadiance gives to
\* GetCombinedScattering, GetTransmittance or a lookup of the transmittance
\* table lies in [-1, 1].
C16_CosinesClamped ==
    atmCall.fn = "skyRadiance" =>
        \A n \in 1 .. Len(atmCall.result.lookups) :
            LET lookup == atmCall.result.lookups[n]
            IN  /\ IsCosine(lookup.mu)
                /\ lookup.fn = "combinedScattering" => IsCosine(lookup.mu_s)

\* The view ray from the camera meets the sphere of the top radius ahead of
\* the camera, in exact arithmetic.
HitsTopAhead(camera, view_ray) ==
    LET b == Dot(camera, view_ray)
        c == Dot(camera, camera) - u_top_radius * u_top_radius
    IN  b < 0 /\ b * b - c * FOne * FOne >= 0

AboveTop(camera) == Dot(camera, camera) > u_top_radius * u_top_radius

\* C17 as stated: from a camera above the top of the atmosphere,
\* GetSkyRadiance moves the camera to the top boundary and reads the tables at
\* r = u_top_radius if the view ray hits the boundary ahead of the camera, and
\* returns zero radiance and unit transmittance without a lookup if not.
C17_AboveTheAtmosphere ==
    (atmCall.fn = "skyRadiance" /\ AboveTop(atmCall.camera)) =>
        IF HitsTopAhead(atmCall.camera, atmCall.view_ray)
        THEN /\ atmCall.result.returned = "radiance"
             /\ atmCall.result.r = u_top_radius
             /\ atmCall.result.camera # atmCall.camera
        ELSE /\ atmCall.result.returned = "zero"
             /\ atmCall.result.transmittance = "one"
             /\ atmCall.result.lookups = <<>>

\* C21 as stated: GetExtrapolatedSingleMieScattering returns zero whenever the
\* red channel does not exceed the floor.
C21_ZeroAtOrBelowFloor ==
    (atmCall.fn = "singleMie" /\ atmCall.scattering[1] <= ScatteringFloor) =>
        atmCall.result.value = <<0, 0, 0>>

\* C21, amended: GetExtrapolatedSingleMieScattering returns zero without
\* dividing whenever the red channel is below the floor, and divides by the
\* red channel whenever it is at or above the floor: the divisor is never
\* smaller than the floor.
C21_ZeroBelowFloor ==
    atmCall.fn = "singleMie" =>
        IF atmCall.scattering[1] < ScatteringFloor
        THEN atmCall.result.value = <<0, 0, 0>> /\ ~atmCall.result.divided
        ELSE /\ atmCall.result.divided
             /\ atmCall.result.divisor = atmCall.scattering[1]
             /\ atmCall.result.divisor >= ScatteringFloor

\* The red channel is the floor itself and the quotient is not zero.
C21_Witness ==
    /\ atmCall.fn = "singleMie"
    /\ atmCall.scattering[1] = ScatteringFloor
    /\ atmCall.result.divided
    /\ atmCall.result.value # <<0, 0, 0>>

\* C22: after update() the target of every cascaded light is at its position
\* plus the normalized light direction.
C22_LooksAlongDirection ==
    lastCall = "update" =>
        \A k \in 1 .. Len(cascadedLights) :
            VSub(cascadedLights[k].target, cascadedLights[k].position) = Normalize(direction)

\* update() has placed two lights away from the origin, for a camera that
\* has moved and a direction that is not of unit length.
C22_Witness ==
    /\ lastCall = "update"
    /\ Len(cascadedLights) = 2
    /\ direction # Normalize(direction)
    /\ mainCamera.position # Origin
    /\ margin > 0
    /\ \A k \in 1 .. 2 : cascadedLights[k].position # Origin

\* ========================================================================
\* Claims about CloudsMaterial and the clouds' shaders
\* ========================================================================
\* C18 as stated: with no depth buffer bound, intersectsSceneObjects reports
\* no sample as occluded.
C18_NoDepthNoOcclusion ==
    (sceneCall.fn = "intersectsSceneObjects" /\ sceneCall.depthBuffer = null) =>
        ~sceneCall.occluded

\* C19 as stated: SHADOW_CASCADE_COUNT is never above the length of the
\* shadowIntervals and shadowMatrices arrays.
C19_CascadeCountAtMostFour ==
    DefineNumber(material.defines.SHADOW_CASCADE_COUNT) <= ShadowArrayLength

\* C20 as stated: two fragments of the local weather shader at the same vUv
\* have the same value in each of the four channels.
C20_SameCoordinateSameColor ==
    \A m, n \in 1 .. Len(localWeather) :
        localWeather[m].vUv = localWeather[n].vUv =>
            localWeather[m].outputColor = localWeather[n].outputColor

\* The distance from the camera, along its axis, of the scene point that the
\* depth buffer stores for the pixel of the sample at `position`.
StoredDepth(depthBuffer, position) == depthBuffer[IF position[1] < 0 THEN 1 ELSE 2]
SceneDistance(depth) == cameraNear + (depth * (cameraFar - cameraNear)) \div DepthOne

\* The sample is inside the clip volume that the test considers: x, y in
\* [-1, 1] and z in [0, 1].
InsideClip(position) ==
    LET clip == ViewProjection(position)
    IN  /\ -ClipOne <= clip[1] /\ clip[1] <= ClipOne
        /\ -ClipOne <= clip[2] /\ clip[2] <= ClipOne
        /\ 0 <= clip[3] /\ clip[3] <= ClipOne

\* C25: with a depth buffer bound, intersectsSceneObjects returns true exactly
\* for a sample inside the clip volume whose pixel stores a depth below 1 and
\* which is farther from the camera than the scene point of that depth.
C25_OccludedBehindScene ==
    (sceneCall.fn = "intersectsSceneObjects" /\ sceneCall.depthBuffer # null) =>
        LET position == sceneCall.rayPosition
            depth == StoredDepth(sceneCall.depthBuffer, position)
        IN  sceneCall.occluded <=>
                /\ InsideClip(position)
                /\ depth < DepthOne
                /\ -position[3] > SceneDistance(depth)

\* A sample in the left half of the screen is behind the scene, where the
\* right half of the depth buffer is empty.
C25_Witness ==
    /\ sceneCall.fn = "intersectsSceneObjects"
    /\ sceneCall.depthBuffer # null
    /\ sceneCall.depthBuffer[1] < DepthOne
    /\ sceneCall.depthBuffer[2] = DepthOne
    /\ sceneCall.rayPosition[1] < 0
    /\ sceneCall.occluded

-----------------------------------------------------------------------------
\* Claims about GetSkyRadianceToPoint

\* No point of the segment from a to b is nearer to the centre than radius,
\* in exact arithmetic.
SegmentOutside(a, b, radius) ==
    LET ray == VSub(b, a)
        along == Dot(a, ray)
        outer == Dot(a, a) - radius * radius
    IN  /\ outer >= 0
        /\ Dot(b, b) >= radius * radius
        /\ (along < 0 /\ -along < Dot(ray, ray)) => outer * Dot(ray, ray) >= along * along

\* C30: RayOutsideTopAtmosphereBoundary returns true, and GetSkyRadianceToPoint
\* zero in-scatter with unit transmittance, only for a segment no point of
\* which is inside the top atmosphere sphere; it returns false whenever the
\* camera or the point is inside the top radius.
C30_TrueOnlyOutsideAtmosphere ==
    atmCall.fn = "skyRadianceToPoint" =>
        /\ atmCall.result.outside =>
                SegmentOutside(atmCall.camera, atmCall.point, u_top_radius)
        /\ (atmCall.result.returned = "zero") <=> atmCall.result.outside
        /\ (\/ FLength(atmCall.camera) < u_top_radius
            \/ FLength(atmCall.point) < u_top_radius) => ~atmCall.result.outside

\* The part of C30 the function keeps: false for a camera or a point inside.
C30_FalseWhenInside ==
    atmCall.fn = "skyRadianceToPoint" =>
        /\ (atmCall.result.returned = "zero") <=> atmCall.result.outside
        /\ (\/ FLength(atmCall.camera) < u_top_radius
            \/ FLength(atmCall.point) < u_top_radius) => ~atmCall.result.outside

-----------------------------------------------------------------------------
\* Claims about the properties of CloudsMaterial

\* C28: an assignment to a define-backed property leaves the getter returning
\* the assigned value; an assignment of the current value changes neither the
\* defines nor needsUpdate; needsUpdate is raised only by an assignment that
\* changes the value.
C28_SetterKeepsLastValue ==
    [][materialCall'.fn = "set" =>
          /\ GetProperty(material', materialCall'.property) = materialCall'.value
          /\ GetProperty(material, materialCall'.property) = materialCall'.value =>
                /\ material'.defines = material.defines
                /\ material'.needsUpdate = material.needsUpdate
          /\ (material'.needsUpdate /\ ~material.needsUpdate) =>
                GetProperty(material, materialCall'.property) # materialCall'.value]_vars

\* The octave count -1 is assigned again after the material was compiled, and
\* the material still needs no update.
C28_Witness ==
    /\ materialCall.fn = "set"
    /\ materialCall.property = "multiScatteringOctaves"
    /\ materialCall.value = -1
    /\ material.defines.MULTI_SCATTERING_OCTAVES = <<"-", "1">>
    /\ ~material.needsUpdate

\* C29: after copyCameraSettings the PERSPECTIVE_CAMERA define is '1' exactly
\* for a perspective camera, needsUpdate is raised only when that define
\* changed, and when the geodetic conversion throws the call returns with the
\* cameraHeight uniform kept and the matrices, cameraNear and cameraFar updated.
C29_CopyCameraSettings ==
    [][materialCall'.fn = "copyCameraSettings" =>
          /\ (material'.defines.PERSPECTIVE_CAMERA = <<"1">>)
                <=> materialCall'.camera.isPerspectiveCamera
          /\ (material'.needsUpdate /\ ~material.needsUpdate) =>
                material'.defines.PERSPECTIVE_CAMERA # material.defines.PERSPECTIVE_CAMERA
          /\ materialCall'.caught =>
                /\ materialCall'.returned
                /\ material'.uniforms.cameraHeight = material.uniforms.cameraHeight
                /\ material'.uniforms.viewMatrix = VSub(Origin, materialCall'.camera.matrixWorld)
                /\ material'.uniforms.inverseViewMatrix = materialCall'.camera.matrixWorld
                /\ material'.uniforms.inverseProjectionMatrix =
                       IF materialCall'.camera.isPerspectiveCamera THEN "perspective"
                       ELSE "orthographic"
                /\ material'.uniforms.cameraNear = materialCall'.camera.near
                /\ material'.uniforms.cameraFar = materialCall'.camera.far]_vars

\* The conversion throws for a perspective camera at the centre, after an
\* earlier call had stored a height and the define, and the material was
\* compiled in between.
C29_Witness ==
    /\ materialCall.fn = "copyCameraSettings"
    /\ materialCall.caught
    /\ materialCall.camera.isPerspectiveCamera
    /\ material.uniforms.cameraHeight # 0
    /\ material.uniforms.cameraFar = materialCall.camera.far
    /\ material.defines.PERSPECTIVE_CAMERA = <<"1">>
    /\ ~material.needsUpdate

====
